---------------------------- MODULE Spec2Model ----------------------------
(***************************************************************************)
(* Supply-chain dashboard: composite scoring engine and regime-return      *)
(* analyzer (backend/app/services/composite_calculator.py and              *)
(* regime_analyzer.py), with the tables they read and write.               *)
(*                                                                         *)
(* Representation.                                                         *)
(*  - A date is the integer YYYYMMDD; integer order is calendar order.     *)
(*    A month key ("YYYY-MM" in the source) is the integer YYYYMM; integer *)
(*    order is the lexicographic order of the zero-padded strings.         *)
(*  - A float is a fixed-point integer in units of 1/Scale.  Observation   *)
(*    values, prices and weights are whole numbers of units 1.0.           *)
(***************************************************************************)
EXTENDS Integers, Sequences, FiniteSets, TLC

VARIABLES
    indicator_configs,  \* table indicator_configs: set of IndicatorConfig rows
    observations,       \* table observations: set of Observation rows
    market_series,      \* table market_series: set of MarketSeries rows
    market_prices,      \* table market_prices: set of MarketPrice rows
    regime_returns,     \* table regime_returns as committed (what other sessions see)
    result,             \* what the last composite endpoint call returned
    pc,                 \* position of the compute_regime_returns run
    run,                \* locals of the compute_regime_returns run in progress
    reader,             \* what readers of regime_returns saw during the current run
    call                \* a call of a pure function: its argument and its return value

vars == <<indicator_configs, observations, market_series, market_prices,
          regime_returns, result, pc, run, reader, call>>

dbVars == <<indicator_configs, observations, market_series, market_prices, regime_returns>>
runVars == <<pc, run, reader>>

-----------------------------------------------------------------------------
(* Bounds of the model *)

\* Trailing window in months.  The source sets 36 (composite_calculator.py:13);
\* the model scales it down so that rolling windows over a few months are explored.
WINDOW == 2

\* Number of consecutive calendar months for which data may exist.
NumMonths == 3

\* Fixed-point resolution of a float: 1.0 is Scale units.
Scale == 10000

\* Longest list of values zscore is called on directly.
MaxZLen == 3

-----------------------------------------------------------------------------
(* Generic helpers *)

RECURSIVE SumSeq(_)
SumSeq(s) == IF s = <<>> THEN 0 ELSE Head(s) + SumSeq(Tail(s))

Abs(a) == IF a < 0 THEN -a ELSE a

\* a / b for b > 0, rounded to the nearest unit (float division, round to nearest)
RoundDiv(a, b) ==
    LET m == IF a >= 0 THEN a ELSE -a
        q == (m \div b) + (IF 2 * (m % b) >= b THEN 1 ELSE 0)
    IN  IF a >= 0 THEN q ELSE -q

RECURSIVE ISqrtBetween(_, _, _)
ISqrtBetween(n, lo, hi) ==
    IF lo >= hi THEN lo
    ELSE LET mid == (lo + hi + 1) \div 2
         IN  IF mid * mid <= n THEN ISqrtBetween(n, mid, hi)
                               ELSE ISqrtBetween(n, lo, mid - 1)

\* square root of n >= 0 rounded to the nearest unit
Sqrt(n) ==
    LET r == ISqrtBetween(n, 0, 46340)
    IN  IF n - r * r > r THEN r + 1 ELSE r

\* sorted(S) for a finite set of integers: its elements ascending
RECURSIVE Sorted(_)
Sorted(S) ==
    IF S = {} THEN <<>>
    ELSE LET x == CHOOSE y \in S : \A z \in S : y <= z
         IN  <<x>> \o Sorted(S \ {x})

Range(s) == {s[i] : i \in 1..Len(s)}

\* All orderings of the finite set S
RECURSIVE Perms(_)
Perms(S) ==
    IF S = {} THEN {<<>>}
    ELSE UNION {{<<x>> \o p : p \in Perms(S \ {x})} : x \in S}

\* round(x, 3) of a float: to the nearest 1/1000, ties to even
Round3(x) ==
    LET q == Scale \div 1000
        lo == (x \div q) * q          \* floor to the grid (\div floors)
        r == x - lo
    IN  IF 2 * r < q THEN lo
        ELSE IF 2 * r > q THEN lo + q
        ELSE IF (lo \div q) % 2 = 0 THEN lo ELSE lo + q

-----------------------------------------------------------------------------
(* Calendar *)

\* YYYYMMDD of a day of the i-th month (i = 0 is November 2023)
DateOf(i, day) == (2023 + (10 + i) \div 12) * 10000 + (((10 + i) % 12) + 1) * 100 + day

\* to_month: date -> "YYYY-MM"
to_month(d) == d \div 100

-----------------------------------------------------------------------------
(* composite_calculator.py: zscore, regime, series_month_map *)

mean(xs) == RoundDiv(SumSeq(xs) * Scale, Len(xs))

\* population standard deviation: sqrt(sum((x - mean)^2) / n)
\* = sqrt(n * sum(x^2) - sum(x)^2) / n, evaluated exactly under the root
pstdev(xs) ==
    LET n == Len(xs)
        s == SumSeq(xs)
        q == SumSeq([i \in 1..n |-> xs[i] * xs[i]])
    IN  Sqrt(RoundDiv((n * q - s * s) * Scale * Scale, n * n))

\* sd < 1e-6, sd in units of 1/Scale
BelowSdThreshold(sd) == sd * (1000000 \div Scale) < 1

\* Faulty variant: a degenerate window gives the deviation from the mean,
\* as if the standard deviation were 1
zscore_DegenerateKeepsDeviation(xs, x) ==
    IF Len(xs) < 2 THEN 0
    ELSE LET mu == mean(xs)
             sd == pstdev(xs)
         IN  IF BelowSdThreshold(sd) THEN x * Scale - mu
             ELSE RoundDiv((x * Scale - mu) * Scale, sd)

\* Faulty variant: the deviation from the mean is divided by the variance
zscore_DividesByVariance(xs, x) ==
    IF Len(xs) < 2 THEN 0
    ELSE LET mu == mean(xs)
             sd == pstdev(xs)
         IN  IF BelowSdThreshold(sd) THEN 0
             ELSE RoundDiv(RoundDiv((x * Scale - mu) * Scale, sd) * Scale, sd)

zscore(xs, x) ==
    IF Len(xs) < 2 THEN 0
    ELSE LET mu == mean(xs)
             sd == pstdev(xs)
         IN  IF BelowSdThreshold(sd) THEN 0
             ELSE RoundDiv((x * Scale - mu) * Scale, sd)

\* Faulty variant: the bucket bounds are inclusive on the upper side
regime_UpperInclusive(z) ==
    IF 2 * z <= -Scale THEN "low"
    ELSE IF 2 * z <= Scale THEN "normal"
    ELSE IF 2 * z <= 3 * Scale THEN "elevated"
    ELSE "crisis"

regime(z) ==
    IF 2 * z < -Scale THEN "low"
    ELSE IF 2 * z < Scale THEN "normal"
    ELSE IF 2 * z < 3 * Scale THEN "elevated"
    ELSE "crisis"

\* Faulty variant: the last observation processed wins, whatever its date
RECURSIVE MonthMapFrom_LastWins(_, _, _)
MonthMapFrom_LastWins(obs, i, m) ==
    IF i > Len(obs) THEN m
    ELSE LET o == obs[i]
             k == to_month(o.date)
         IN  MonthMapFrom_LastWins(obs, i + 1,
                 [j \in DOMAIN m \cup {k} |-> IF j = k THEN o ELSE m[j]])

\* Faulty variant: the loop stops before the last observation
RECURSIVE MonthMapFrom_StopsEarly(_, _, _)
MonthMapFrom_StopsEarly(obs, i, m) ==
    IF i >= Len(obs) THEN m
    ELSE LET o == obs[i]
             k == to_month(o.date)
         IN  IF (k \notin DOMAIN m) \/ (o.date > m[k].date)
             THEN MonthMapFrom_StopsEarly(obs, i + 1,
                               [j \in DOMAIN m \cup {k} |-> IF j = k THEN o ELSE m[j]])
             ELSE MonthMapFrom_StopsEarly(obs, i + 1, m)

\* The loop of series_month_map over obs[i..], m the dict built so far
RECURSIVE MonthMapFrom(_, _, _)
MonthMapFrom(obs, i, m) ==
    IF i > Len(obs) THEN m
    ELSE LET o == obs[i]
             k == to_month(o.date)
         IN  IF (k \notin DOMAIN m) \/ (o.date > m[k].date)
             THEN MonthMapFrom(obs, i + 1,
                               [j \in DOMAIN m \cup {k} |-> IF j = k THEN o ELSE m[j]])
             ELSE MonthMapFrom(obs, i + 1, m)

series_month_map(obs) == MonthMapFrom(obs, 1, <<>>)

-----------------------------------------------------------------------------
(* composite_calculator.py: reading the tables *)

\* The rows of the finite set S of rows with a date, ascending by date
RECURSIVE ByDate(_)
ByDate(S) ==
    IF S = {} THEN <<>>
    ELSE LET x == CHOOSE y \in S : \A z \in S : y.date <= z.date
         IN  <<x>> \o ByDate(S \ {x})

\* The rows of the finite set S of configs, ascending by display_order
RECURSIVE ByDisplayOrder(_)
ByDisplayOrder(S) ==
    IF S = {} THEN <<>>
    ELSE LET x == CHOOSE y \in S : \A z \in S : y.display_order <= z.display_order
         IN  <<x>> \o ByDisplayOrder(S \ {x})

get_series(obsTable, series_id) ==
    ByDate({o \in obsTable : o.series_id = series_id})

get_active_indicators(cfgTable) ==
    ByDisplayOrder({c \in cfgTable : c.include_in_composite = TRUE})

\* Faulty variant: a series without observations gets an (empty) month map as well
RECURSIVE IndicatorMapsFrom_KeepsEmpty(_, _, _, _)
IndicatorMapsFrom_KeepsEmpty(configs, obsTable, i, maps) ==
    IF i > Len(configs) THEN maps
    ELSE LET sid == configs[i].series_id
             obs == get_series(obsTable, sid)
         IN  IndicatorMapsFrom_KeepsEmpty(configs, obsTable, i + 1,
                                          (sid :> series_month_map(obs)) @@ maps)

\* The loop that builds indicator_maps: series_id -> month map, for configs[i..]
RECURSIVE IndicatorMapsFrom(_, _, _, _)
IndicatorMapsFrom(configs, obsTable, i, maps) ==
    IF i > Len(configs) THEN maps
    ELSE LET sid == configs[i].series_id
             obs == get_series(obsTable, sid)
         IN  IF obs # <<>>
             THEN IndicatorMapsFrom(configs, obsTable, i + 1,
                                    (sid :> series_month_map(obs)) @@ maps)
             ELSE IndicatorMapsFrom(configs, obsTable, i + 1, maps)

\* Faulty variant: the earliest common month is lost
IntersectMonths_WithoutEarliest(maps) ==
    LET first == CHOOSE sid \in DOMAIN maps : TRUE
        common == {k \in DOMAIN maps[first] : \A sid \in DOMAIN maps : k \in DOMAIN maps[sid]}
    IN  {k \in common : \E j \in common : j < k}

\* set.intersection(*all_month_sets), for a non-empty indicator_maps
IntersectMonths(maps) ==
    LET first == CHOOSE sid \in DOMAIN maps : TRUE
    IN  {k \in DOMAIN maps[first] : \A sid \in DOMAIN maps : k \in DOMAIN maps[sid]}

\* common_months[-window:] for window >= 1
LastN(s, n) == IF Len(s) <= n THEN s ELSE SubSeq(s, Len(s) - n + 1, Len(s))

\* Faulty variant: invert_sign is not applied
SignedZ_IgnoresInvert(config, obs_map, window_months) ==
    LET values == [j \in 1..Len(window_months) |-> obs_map[window_months[j]].value]
    IN  zscore(values, values[Len(values)])

\* Faulty variant: the first window value is scored instead of the last
SignedZ_ScoresFirst(config, obs_map, window_months) ==
    LET values == [j \in 1..Len(window_months) |-> obs_map[window_months[j]].value]
        z == zscore(values, values[1])
    IN  IF config.invert_sign THEN -z ELSE z

\* z-score of the last window value of one indicator, sign inversion applied
SignedZ(config, obs_map, window_months) ==
    LET values == [j \in 1..Len(window_months) |-> obs_map[window_months[j]].value]
        latest_value == values[Len(values)]
        z == zscore(values, latest_value)
    IN  IF config.invert_sign THEN -z ELSE z

-----------------------------------------------------------------------------
(* composite_calculator.py: calculate_composite_latest *)

\* The loop over configs (lines 127-148); acc holds indicator_results,
\* weighted_z_sum and weight_sum
RECURSIVE LatestLoop(_, _, _, _, _)
LatestLoop(configs, indicator_maps, window_months, i, acc) ==
    IF i > Len(configs) THEN acc
    ELSE LET config == configs[i]
             sid == config.series_id
         IN  IF sid \notin DOMAIN indicator_maps
             THEN LatestLoop(configs, indicator_maps, window_months, i + 1, acc)
             ELSE LET obs_map == indicator_maps[sid]
                      current_month == window_months[Len(window_months)]
                      z == SignedZ(config, obs_map, window_months)
                      entry == [date |-> obs_map[current_month].date,
                                value |-> obs_map[current_month].value,
                                z_score |-> Round3(z),
                                regime |-> regime(z)]
                  IN  LatestLoop(configs, indicator_maps, window_months, i + 1,
                          [indicator_results |-> (sid :> entry) @@ acc.indicator_results,
                           weighted_z_sum |-> acc.weighted_z_sum + z * config.weight,
                           weight_sum |-> acc.weight_sum + config.weight])

\* Faulty variant: the required count is reported as the aligned count
NotEnoughAligned_ReportsWindow(common_months, window) ==
    [error |-> "not enough aligned data",
     aligned_months |-> window,
     required |-> window]

\* The result returned when len(common_months) < window (lines 113-117)
NotEnoughAligned(common_months, window) ==
    [error |-> "not enough aligned data",
     aligned_months |-> Len(common_months),
     required |-> window]

\* Faulty variant: without a positive weight sum the weighted sum is returned as it is
CompositeScore_UnnormalisedWithoutWeight(weighted_z_sum, weight_sum) ==
    IF weight_sum > 0 THEN RoundDiv(weighted_z_sum, weight_sum) ELSE weighted_z_sum

\* Faulty variant: the score is rounded to 3 decimals before it is classified
CompositeScore_Rounded(weighted_z_sum, weight_sum) ==
    IF weight_sum > 0 THEN Round3(RoundDiv(weighted_z_sum, weight_sum)) ELSE 0

CompositeScore(weighted_z_sum, weight_sum) ==
    IF weight_sum > 0 THEN RoundDiv(weighted_z_sum, weight_sum) ELSE 0

calculate_composite_latest(cfgTable, obsTable, window) ==
    LET configs == get_active_indicators(cfgTable)
    IN  IF configs = <<>> THEN [error |-> "no indicators configured"]
        ELSE
        LET indicator_maps == IndicatorMapsFrom(configs, obsTable, 1, <<>>)
        IN  IF DOMAIN indicator_maps = {} THEN [error |-> "no indicator data found"]
            ELSE
            LET common_months == Sorted(IntersectMonths(indicator_maps))
            IN  IF Len(common_months) < window
                THEN NotEnoughAligned(common_months, window)
                ELSE
                LET window_months == LastN(common_months, window)
                    current_month == window_months[Len(window_months)]
                    acc == LatestLoop(configs, indicator_maps, window_months, 1,
                                      [indicator_results |-> <<>>,
                                       weighted_z_sum |-> 0, weight_sum |-> 0])
                    composite_score == CompositeScore(acc.weighted_z_sum, acc.weight_sum)
                IN  [composite |-> [score |-> Round3(composite_score),
                                    regime |-> regime(composite_score)],
                     meta |-> [window |-> window,
                               aligned_months |-> Len(common_months),
                               indicator_count |-> Cardinality(DOMAIN acc.indicator_results)]]
                    @@ acc.indicator_results
                    @@ [month |-> current_month]

-----------------------------------------------------------------------------
(* composite_calculator.py: calculate_composite_history *)

\* Faulty variant: an indicator of weight 0 is left out of the row
RECURSIVE HistoryRowLoop_SkipsZeroWeight(_, _, _, _, _)
HistoryRowLoop_SkipsZeroWeight(configs, indicator_maps, window_months, k, acc) ==
    IF k > Len(configs) THEN acc
    ELSE LET config == configs[k]
             sid == config.series_id
         IN  IF sid \notin DOMAIN indicator_maps \/ config.weight = 0
             THEN HistoryRowLoop_SkipsZeroWeight(configs, indicator_maps, window_months,
                                                 k + 1, acc)
             ELSE LET z == SignedZ(config, indicator_maps[sid], window_months)
                  IN  HistoryRowLoop_SkipsZeroWeight(configs, indicator_maps,
                          window_months, k + 1,
                          [row |-> ((sid \o "_z") :> Round3(z)) @@ acc.row,
                           weighted_z_sum |-> acc.weighted_z_sum + z * config.weight,
                           weight_sum |-> acc.weight_sum + config.weight])

\* The inner loop over indicator_maps.items() (lines 210-221), in insertion
\* order, which is the order of configs
RECURSIVE HistoryRowLoop(_, _, _, _, _)
HistoryRowLoop(configs, indicator_maps, window_months, k, acc) ==
    IF k > Len(configs) THEN acc
    ELSE LET config == configs[k]
             sid == config.series_id
         IN  IF sid \notin DOMAIN indicator_maps
             THEN HistoryRowLoop(configs, indicator_maps, window_months, k + 1, acc)
             ELSE LET z == SignedZ(config, indicator_maps[sid], window_months)
                  IN  HistoryRowLoop(configs, indicator_maps, window_months, k + 1,
                          [row |-> ((sid \o "_z") :> Round3(z)) @@ acc.row,
                           weighted_z_sum |-> acc.weighted_z_sum + z * config.weight,
                           weight_sum |-> acc.weight_sum + config.weight])

\* Faulty variant: the slice is taken one month late, common_months[i - window + 2 : i + 2]
WindowMonthsAt_OneLate(common_months, window, i) ==
    IF i < Len(common_months) THEN SubSeq(common_months, i - window + 2, i + 1)
    ELSE SubSeq(common_months, i - window + 1, i)

\* common_months[i - (window - 1) : i + 1], i the 1-based index of the row's month
WindowMonthsAt(common_months, window, i) == SubSeq(common_months, i - window + 1, i)

\* Faulty variant: the composite of a row is stored unrounded
HistoryRow_CompositeUnrounded(configs, indicator_maps, common_months, window, i) ==
    LET window_months == WindowMonthsAt(common_months, window, i)
        current_month == common_months[i]
        acc == HistoryRowLoop(configs, indicator_maps, window_months, 1,
                              [row |-> [month |-> current_month],
                               weighted_z_sum |-> 0, weight_sum |-> 0])
        composite_score == CompositeScore(acc.weighted_z_sum, acc.weight_sum)
    IN  [composite |-> composite_score, regime |-> regime(composite_score)]
        @@ acc.row

\* One pass of the loop over i (lines 203-226)
HistoryRow(configs, indicator_maps, common_months, window, i) ==
    LET window_months == WindowMonthsAt(common_months, window, i)
        current_month == common_months[i]
        acc == HistoryRowLoop(configs, indicator_maps, window_months, 1,
                              [row |-> [month |-> current_month],
                               weighted_z_sum |-> 0, weight_sum |-> 0])
        composite_score == CompositeScore(acc.weighted_z_sum, acc.weight_sum)
    IN  [composite |-> Round3(composite_score), regime |-> regime(composite_score)]
        @@ acc.row

\* Faulty variant: range(window, len(common_months)), the first row is lost
HistoryIndices_FromWindow(window, n) == [j \in 1..(n - window) |-> window + j]

\* range(window - 1, len(common_months)) as 1-based indices, in order
HistoryIndices(window, n) == [j \in 1..(n - window + 1) |-> window - 1 + j]

calculate_composite_history(cfgTable, obsTable, window) ==
    LET configs == get_active_indicators(cfgTable)
    IN  IF configs = <<>> THEN <<>>
        ELSE
        LET indicator_maps == IndicatorMapsFrom(configs, obsTable, 1, <<>>)
        IN  IF DOMAIN indicator_maps = {} THEN <<>>
            ELSE
            LET common_months == Sorted(IntersectMonths(indicator_maps))
                n == Len(common_months)
            IN  IF n < window THEN <<>>
                ELSE LET indices == HistoryIndices(window, n)
                     IN  [j \in 1..Len(indices) |->
                             HistoryRow(configs, indicator_maps, common_months, window,
                                        indices[j])]

-----------------------------------------------------------------------------
(* regime_analyzer.py: compute_monthly_returns *)

\* Faulty variant: the entry processed first for a month stays
RECURSIVE MonthPricesFrom_FirstWins(_, _, _)
MonthPricesFrom_FirstWins(prices, i, month_prices) ==
    IF i > Len(prices) THEN month_prices
    ELSE LET p == prices[i]
             month == to_month(p.date)
         IN  MonthPricesFrom_FirstWins(prices, i + 1,
                 [j \in DOMAIN month_prices \cup {month} |->
                      IF j \in DOMAIN month_prices THEN month_prices[j]
                      ELSE p.adjusted_close])

\* The loop over prices (lines 32-34): month -> adjusted_close, the entry
\* processed last for a month stays
RECURSIVE MonthPricesFrom(_, _, _)
MonthPricesFrom(prices, i, month_prices) ==
    IF i > Len(prices) THEN month_prices
    ELSE LET p == prices[i]
             month == to_month(p.date)
         IN  MonthPricesFrom(prices, i + 1,
                 [j \in DOMAIN month_prices \cup {month} |->
                      IF j = month THEN p.adjusted_close ELSE month_prices[j]])

\* (curr_price - prev_price) / prev_price
MonthlyReturn(prev_price, curr_price) == RoundDiv((curr_price - prev_price) * Scale, prev_price)

\* Faulty variant: a month whose previous price is not positive gets the return 0
RECURSIVE ReturnsFrom_ZeroWithoutBase(_, _, _, _)
ReturnsFrom_ZeroWithoutBase(months, month_prices, i, returns) ==
    IF i > Len(months) THEN returns
    ELSE LET prev_price == month_prices[months[i - 1]]
             curr_price == month_prices[months[i]]
         IN  ReturnsFrom_ZeroWithoutBase(months, month_prices, i + 1,
                 (months[i] :> (IF prev_price > 0 THEN MonthlyReturn(prev_price, curr_price)
                                ELSE 0)) @@ returns)

\* The loop over range(1, len(months)) (lines 40-47)
RECURSIVE ReturnsFrom(_, _, _, _)
ReturnsFrom(months, month_prices, i, returns) ==
    IF i > Len(months) THEN returns
    ELSE LET prev_price == month_prices[months[i - 1]]
             curr_price == month_prices[months[i]]
         IN  IF prev_price > 0
             THEN ReturnsFrom(months, month_prices, i + 1,
                              (months[i] :> MonthlyReturn(prev_price, curr_price)) @@ returns)
             ELSE ReturnsFrom(months, month_prices, i + 1, returns)

compute_monthly_returns(prices) ==
    IF prices = <<>> THEN <<>>
    ELSE LET month_prices == MonthPricesFrom(prices, 1, <<>>)
             months == Sorted(DOMAIN month_prices)
         IN  ReturnsFrom(months, month_prices, 2, <<>>)

-----------------------------------------------------------------------------
(* regime_analyzer.py: compute_regime_returns, the work on one symbol *)

\* mean and pstdev of a list of floats
MeanFixed(xs) == RoundDiv(SumSeq(xs), Len(xs))

PstdevFixed(xs) ==
    LET n == Len(xs)
        s == SumSeq(xs)
        q == SumSeq([i \in 1..n |-> xs[i] * xs[i]])
    IN  Sqrt(RoundDiv(n * q - s * s, n * n))

\* month -> regime of the composite history (lines 70-72)
MonthRegime(composite_history) ==
    [k \in {composite_history[j].month : j \in 1..Len(composite_history)} |->
        LET j == CHOOSE i \in 1..Len(composite_history) :
                     /\ composite_history[i].month = k
                     /\ \A h \in 1..Len(composite_history) :
                            composite_history[h].month = k => h <= i
        IN  composite_history[j].regime]

\* Faulty variant: a return whose month has no regime is counted as normal
RegimeBucket_DefaultsToNormal(returns, month_regime, r) ==
    LET months == Sorted({k \in DOMAIN returns :
                              IF k \in DOMAIN month_regime THEN month_regime[k] = r
                              ELSE r = "normal"})
    IN  [j \in 1..Len(months) |-> returns[months[j]]]

\* The returns of the months a regime was active in, in month order (lines 108-117)
RegimeBucket(returns, month_regime, r) ==
    LET months == Sorted({k \in DOMAIN returns :
                              k \in DOMAIN month_regime /\ month_regime[k] = r})
    IN  [j \in 1..Len(months) |-> returns[months[j]]]

\* Faulty variant: the sample standard deviation (divisor n - 1) is stored
RegimeReturnRow_SampleStdev(symbol, r, rets) ==
    [symbol |-> symbol,
     regime |-> r,
     avg_monthly_return |-> MeanFixed(rets),
     std_monthly_return |->
         IF Len(rets) > 1
         THEN LET n == Len(rets)
                  sum == SumSeq(rets)
                  q == SumSeq([i \in 1..n |-> rets[i] * rets[i]])
              IN  Sqrt(RoundDiv(n * q - sum * sum, n * (n - 1)))
         ELSE 0,
     sample_count |-> Len(rets)]

\* The RegimeReturn row of one non-empty bucket (lines 124-134); the
\* autoincrement id and the computed_at timestamp are left out
RegimeReturnRow(symbol, r, rets) ==
    [symbol |-> symbol,
     regime |-> r,
     avg_monthly_return |-> MeanFixed(rets),
     std_monthly_return |-> IF Len(rets) > 1 THEN PstdevFixed(rets) ELSE 0,
     sample_count |-> Len(rets)]

\* Faulty variant: a symbol without prices gets a record of no samples
SymbolRows_RecordsNoPrices(priceTable, month_regime, symbol) ==
    LET prices == ByDate({p \in priceTable : p.symbol = symbol})
    IN  IF prices = <<>>
        THEN {[symbol |-> symbol, regime |-> "normal", avg_monthly_return |-> 0,
               std_monthly_return |-> 0, sample_count |-> 0]}
        ELSE LET price_data == [i \in 1..Len(prices) |->
                                   [date |-> prices[i].date,
                                    adjusted_close |-> prices[i].adjusted_close]]
                 returns == compute_monthly_returns(price_data)
             IN  {RegimeReturnRow(symbol, r, RegimeBucket(returns, month_regime, r)) :
                     r \in {x \in {"low", "normal", "elevated", "crisis"} :
                               RegimeBucket(returns, month_regime, x) # <<>>}}

\* The rows one pass of the loop over symbols adds to the session (lines 87-135)
SymbolRows(priceTable, month_regime, symbol) ==
    LET prices == ByDate({p \in priceTable : p.symbol = symbol})
    IN  IF prices = <<>> THEN {}
        ELSE LET price_data == [i \in 1..Len(prices) |->
                                   [date |-> prices[i].date,
                                    adjusted_close |-> prices[i].adjusted_close]]
                 returns == compute_monthly_returns(price_data)
             IN  {RegimeReturnRow(symbol, r, RegimeBucket(returns, month_regime, r)) :
                     r \in {x \in {"low", "normal", "elevated", "crisis"} :
                               RegimeBucket(returns, month_regime, x) # <<>>}}

-----------------------------------------------------------------------------
(* ingest_fred_indicators.py, ingest_market_data.py: the upserts *)

\* date.fromisoformat of a date string, the string given as <<year, month, day>>
fromisoformat(d_str) == d_str[1] * 10000 + d_str[2] * 100 + d_str[3]

\* str(date): the date string of a date
isoformat(d) == <<d \div 10000, (d \div 100) % 100, d % 100>>

\* Faulty variant: a row is skipped only when its date is stored with the same value
ObservationsToAdd_SkipsSameValueOnly(obsTable, series_id, rows) ==
    LET existing == {<<o.date, o.value>> : o \in {p \in obsTable : p.series_id = series_id}}
        kept == SelectSeq(rows, LAMBDA row : <<fromisoformat(row[1]), row[2]>> \notin existing)
    IN  [i \in 1..Len(kept) |->
            [series_id |-> series_id, date |-> fromisoformat(kept[i][1]), value |-> kept[i][2]]]

\* The Observation rows upsert_observations adds: those of rows whose date is
\* not stored for the series when the call starts
ObservationsToAdd(obsTable, series_id, rows) ==
    LET existing_dates == {o.date : o \in {p \in obsTable : p.series_id = series_id}}
        kept == SelectSeq(rows, LAMBDA row : fromisoformat(row[1]) \notin existing_dates)
    IN  [i \in 1..Len(kept) |->
            [series_id |-> series_id, date |-> fromisoformat(kept[i][1]), value |-> kept[i][2]]]

\* The MarketPrice rows upsert_prices adds
PricesToAdd(priceTable, symbol, prices) ==
    LET existing_dates == {q.date : q \in {p \in priceTable : p.symbol = symbol}}
        kept == SelectSeq(prices, LAMBDA p : p.date \notin existing_dates)
    IN  [i \in 1..Len(kept) |->
            [symbol |-> symbol, date |-> kept[i].date, close |-> kept[i].close,
             adjusted_close |-> kept[i].adjusted_close]]

\* Faulty variant: market_prices without its unique constraint
UniqueViolation_NotEnforced(to_add) == FALSE

\* uq_market_prices_symbol_date (market_price.py lines 15-17) at the commit of
\* to_add: two of the new rows have the same symbol and date.  A row whose
\* date is stored is never among the new rows.
UniqueViolation(to_add) ==
    \E i, j \in 1..Len(to_add) :
        i < j /\ to_add[i].symbol = to_add[j].symbol /\ to_add[i].date = to_add[j].date

-----------------------------------------------------------------------------
(* Input domains *)

\* Series identifiers (seed.py, SEED_INDICATOR_CONFIGS)
Series == {"gscpi", "cass"}

\* Observation values
Values == {1, 2}

\* Indicator weights
Weights == {0, 1, 2}

MonthIndices == 0 .. NumMonths - 1

\* One observation date per month
MonthlyDates == {DateOf(i, 15) : i \in MonthIndices}

NoResult == [op |-> "none"]
NoCall == [op |-> "none"]
NoRun == [month_regime |-> <<>>, symbols |-> <<>>, session |-> {}, records_inserted |-> 0,
          previous |-> {}]

\* display_order of the seeded configs (seed.py lines 76-78)
SeedDisplayOrder(s) == IF s = "gscpi" THEN 1 ELSE 3

\* Whether the data sets explored set invert_sign on the config of series s
InvertChoices(s) == IF s = "gscpi" THEN BOOLEAN ELSE {FALSE}

\* The states of one IndicatorConfig row.  A row that is not included is never
\* read beyond its flag, so it is kept with the column defaults.
ConfigRows(s) ==
    {[series_id |-> s, include_in_composite |-> FALSE, weight |-> 1,
      invert_sign |-> FALSE, display_order |-> SeedDisplayOrder(s)]}
    \cup
    {[series_id |-> s, include_in_composite |-> TRUE, weight |-> w,
      invert_sign |-> inv, display_order |-> SeedDisplayOrder(s)]
        : w \in Weights, inv \in InvertChoices(s)}

\* indicator_configs tables: at most one row per series_id (primary key)
ConfigTables ==
    {{f[s] : s \in Series} : f \in {g \in [Series -> UNION {ConfigRows(s) : s \in Series}] :
                                        \A s \in Series : g[s] \in ConfigRows(s)}}

\* The values series s may have published for date d in the data sets explored:
\* any value for gscpi, one value alternating by month for cass
ValueChoices(s, d) == IF s = "gscpi" THEN Values ELSE {1 + (to_month(d) % 2)}

\* observations tables with at most one row per (series_id, date); 0 marks no row
ObservationTables(dates) ==
    {{[series_id |-> p[1], date |-> p[2], value |-> f[p]] :
          p \in {q \in Series \X dates : f[q] # 0}}
        : f \in {g \in [Series \X dates -> Values \cup {0}] :
                     \A q \in Series \X dates :
                         g[q] \in ValueChoices(q[1], q[2]) \cup {0}}}

-----------------------------------------------------------------------------
(* SpecComposite: calls of the composite calculator.  A behaviour is either  *)
(* a stored data set and one call of an endpoint function on it, or one call  *)
(* of a pure function on an argument.                                         *)

Windows == 1 .. WINDOW

\* Scores at which regime is called: a grid, and each threshold with its neighbours
ZSamples ==
    {k * (Scale \div 8) : k \in -20 .. 20}
    \cup {t + e : t \in {-(Scale \div 2), Scale \div 2, 3 * (Scale \div 2)}, e \in {-1, 0, 1}}

\* Dates of the observation lists given to series_month_map: two days in each
\* of two months
ListDates == {DateOf(i, day) : i \in {1, 2}, day \in {10, 20}}

\* Observation lists with pairwise distinct dates, in every order
ObservationLists ==
    UNION {Perms({[series_id |-> "gscpi", date |-> d, value |-> f[d]] : d \in D})
              : D \in SUBSET ListDates, f \in [ListDates -> Values]}

\* Dates of the price lists given to compute_monthly_returns: three months,
\* the second with two days
PriceListDates == {DateOf(0, 15), DateOf(1, 10), DateOf(1, 20), DateOf(2, 15)}

\* Adjusted closes of the price lists, a price of 0 among them
ListPrices == {0, 1, 2}

\* Price lists with pairwise distinct dates, in every order
PriceLists ==
    UNION {Perms({[date |-> d, adjusted_close |-> f[d]] : d \in D})
              : D \in SUBSET PriceListDates, f \in [PriceListDates -> ListPrices]}

\* Arguments of direct calls of zscore: lists xs of up to MaxZLen values, the
\* empty and the one-element list among them, and a value x
ZValues == {1, 2, 3}

ZLists == UNION {[1..n -> ZValues] : n \in 0..MaxZLen}

ZPoints == {0} \cup ZValues

PureCalls ==
    {[op |-> "regime", arg |-> z] : z \in ZSamples}
    \cup {[op |-> "series_month_map", arg |-> obs] : obs \in ObservationLists}
    \cup {[op |-> "zscore", arg |-> <<xs, x>>] : xs \in ZLists, x \in ZPoints}
    \cup {[op |-> "compute_monthly_returns", arg |-> prices] : prices \in PriceLists}

Returned == "ret" \in DOMAIN call

InitComposite ==
    /\ \/ /\ indicator_configs \in ConfigTables
          /\ observations \in ObservationTables(MonthlyDates)
          /\ call = NoCall
       \/ /\ indicator_configs = {}
          /\ observations = {}
          /\ call \in PureCalls
    /\ market_series = {}
    /\ market_prices = {}
    /\ regime_returns = {}
    /\ result = NoResult
    /\ pc = "idle"
    /\ run = NoRun
    /\ reader = [request |-> "none"]

\* A call of regime(z)
CallRegime ==
    /\ call.op = "regime" /\ ~Returned
    /\ call' = [op |-> "regime", arg |-> call.arg, ret |-> regime(call.arg)]
    /\ UNCHANGED <<dbVars, runVars, result>>

\* A call of series_month_map(obs)
CallSeriesMonthMap ==
    /\ call.op = "series_month_map" /\ ~Returned
    /\ call' = [op |-> "series_month_map", arg |-> call.arg,
                ret |-> series_month_map(call.arg)]
    /\ UNCHANGED <<dbVars, runVars, result>>

\* A call of zscore(xs, x)
CallZscore ==
    /\ call.op = "zscore" /\ ~Returned
    /\ call' = [op |-> "zscore", arg |-> call.arg, ret |-> zscore(call.arg[1], call.arg[2])]
    /\ UNCHANGED <<dbVars, runVars, result>>

\* A call of compute_monthly_returns(prices)
CallMonthlyReturns ==
    /\ call.op = "compute_monthly_returns" /\ ~Returned
    /\ call' = [op |-> "compute_monthly_returns", arg |-> call.arg,
                ret |-> compute_monthly_returns(call.arg)]
    /\ UNCHANGED <<dbVars, runVars, result>>

\* A call of calculate_composite_latest(db, window)
CompositeLatest(window) ==
    /\ call = NoCall
    /\ result = NoResult
    /\ result' = [op |-> "latest", window |-> window,
                  value |-> calculate_composite_latest(indicator_configs, observations, window)]
    /\ UNCHANGED <<dbVars, runVars, call>>

\* A call of calculate_composite_history(db, window)
CompositeHistory(window) ==
    /\ call = NoCall
    /\ result = NoResult
    /\ result' = [op |-> "history", window |-> window,
                  value |-> calculate_composite_history(indicator_configs, observations, window)]
    /\ UNCHANGED <<dbVars, runVars, call>>

NextComposite ==
    \/ \E window \in Windows : CompositeLatest(window)
    \/ \E window \in Windows : CompositeHistory(window)
    \/ CallRegime
    \/ CallSeriesMonthMap
    \/ CallZscore
    \/ CallMonthlyReturns

SpecComposite == InitComposite /\ [][NextComposite]_vars

-----------------------------------------------------------------------------
(* What the claims about the composite speak of, stated over the tables *)

ActiveSeries == {c.series_id : c \in {d \in indicator_configs : d.include_in_composite}}

ConfigOf(s) == CHOOSE c \in indicator_configs : c.series_id = s

MonthsOf(obsTable, s) == {to_month(o.date) : o \in {p \in obsTable : p.series_id = s}}

\* Active configs whose series has at least one observation
Participating == {s \in ActiveSeries : MonthsOf(observations, s) # {}}

\* Months in which every participating series has an observation
CommonMonths ==
    {k \in UNION {MonthsOf(observations, s) : s \in Series} :
        \A s \in Participating : k \in MonthsOf(observations, s)}

\* The observation of series s with the latest date in month k
RepObs(obsTable, s, k) ==
    CHOOSE o \in obsTable :
        /\ o.series_id = s /\ to_month(o.date) = k
        /\ \A p \in obsTable : (p.series_id = s /\ to_month(p.date) = k) => p.date <= o.date

\* The `window` common months ending at month k, ascending
TrailingMonths(k, window) == LastN(Sorted({j \in CommonMonths : j <= k}), window)

\* z-score of series s over the months (ascending): the value of the last
\* month scored against the values of all of them, negated when invert_sign is set
ZOver(obsTable, s, months) ==
    LET xs == [j \in 1..Len(months) |-> RepObs(obsTable, s, months[j]).value]
        z == zscore(xs, RepObs(obsTable, s, months[Len(months)]).value)
    IN  IF ConfigOf(s).invert_sign THEN -z ELSE z

\* z-score of series s for the row of month k, over its trailing window
ExpectedZ(obsTable, s, k, window) == ZOver(obsTable, s, TrailingMonths(k, window))

RECURSIVE SumOver(_, _)
SumOver(S, f) ==
    IF S = {} THEN 0
    ELSE LET x == CHOOSE y \in S : TRUE IN f[x] + SumOver(S \ {x}, f)

WeightSum == SumOver(Participating, [s \in Participating |-> ConfigOf(s).weight])

\* sum(z_i * weight_i) / sum(weight_i) over the participating indicators
ExpectedComposite(k, window) ==
    RoundDiv(SumOver(Participating,
                     [s \in Participating |->
                          ExpectedZ(observations, s, k, window) * ConfigOf(s).weight]),
             WeightSum)

IsLatest == result.op = "latest"
IsHistory == result.op = "history"
LatestOk == IsLatest /\ "composite" \in DOMAIN result.value
LatestError == IsLatest /\ "error" \in DOMAIN result.value

-----------------------------------------------------------------------------
(* C1: calculate_composite_latest, when the months common to all              *)
(* participating series are fewer than `window`, returns an error result      *)
(* carrying the actual common-month count and the required count, with no     *)
(* month, indicator or composite field.                                       *)
C1_InsufficientAlignedData ==
    (IsLatest /\ Participating # {} /\ Cardinality(CommonMonths) < result.window) =>
        /\ DOMAIN result.value = {"error", "aligned_months", "required"}
        /\ result.value.error = "not enough aligned data"
        /\ result.value.aligned_months = Cardinality(CommonMonths)
        /\ result.value.required = result.window

\* Some, but too few, common months: 1 aligned month reported against window 2
C1_Witness ==
    /\ LatestError
    /\ Cardinality(Participating) = 2
    /\ Cardinality(CommonMonths) = 1 /\ result.window = 2
    /\ result.value.aligned_months = 1

-----------------------------------------------------------------------------
(* C2: every composite score (latest, and each history row) is                *)
(* sum(z_i * weight_i) / sum(weight_i) over exactly the participating         *)
(* indicators (active configs whose series has an observation), z_i the       *)
(* sign-adjusted z-score of the last window value; a dropped indicator adds   *)
(* to neither sum.  (The quotient is defined when the weight sum is > 0.)     *)
ResultKeys == {"month", "composite", "meta"}

C2_WeightedComposite ==
    /\ (LatestOk /\ WeightSum > 0) =>
          /\ DOMAIN result.value \ ResultKeys = Participating
          /\ \A s \in Participating :
                result.value[s].z_score =
                    Round3(ExpectedZ(observations, s, result.value.month, result.window))
          /\ result.value.composite.score =
                Round3(ExpectedComposite(result.value.month, result.window))
    /\ (IsHistory /\ WeightSum > 0) =>
          \A j \in 1..Len(result.value) :
              LET row == result.value[j]
              IN  /\ \A s \in Participating :
                        row[s \o "_z"] =
                            Round3(ExpectedZ(observations, s, row.month, result.window))
                  /\ row.composite = Round3(ExpectedComposite(row.month, result.window))

\* Two indicators of different weights with different non-zero z-scores
C2_Witness ==
    /\ LatestOk
    /\ result.window = 2
    /\ Cardinality(Participating) = 2
    /\ ConfigOf("gscpi").weight = 2 /\ ConfigOf("cass").weight = 1
    /\ result.value["gscpi"].z_score = Scale /\ result.value["cass"].z_score = -Scale
    /\ result.value.composite.score = 3330

-----------------------------------------------------------------------------
(* C3 as stated: whenever a composite is returned or a history row emitted    *)
(* for month M, every active indicator has an observation in month M and      *)
(* contributes a z-score.                                                     *)
C3_EveryActiveContributes ==
    /\ LatestOk =>
          \A s \in ActiveSeries :
              /\ result.value.month \in MonthsOf(observations, s)
              /\ s \in DOMAIN result.value
    /\ IsHistory =>
          \A j \in 1..Len(result.value) : \A s \in ActiveSeries :
              /\ result.value[j].month \in MonthsOf(observations, s)
              /\ (s \o "_z") \in DOMAIN result.value[j]

(* C3 amended: whenever a composite is returned or a history row emitted for  *)
(* month M, every active indicator whose series has at least one observation  *)
(* has an observation in month M and contributes a z-score; an active         *)
(* indicator with no observation at all contributes nothing.                  *)
C3_EveryParticipatingContributes ==
    /\ LatestOk =>
          /\ \A s \in Participating :
                /\ result.value.month \in MonthsOf(observations, s)
                /\ s \in DOMAIN result.value
          /\ \A s \in ActiveSeries \ Participating : s \notin DOMAIN result.value
    /\ IsHistory =>
          \A j \in 1..Len(result.value) :
              /\ \A s \in Participating :
                    /\ result.value[j].month \in MonthsOf(observations, s)
                    /\ (s \o "_z") \in DOMAIN result.value[j]
              /\ \A s \in ActiveSeries \ Participating :
                    (s \o "_z") \notin DOMAIN result.value[j]

\* A history row over two participating indicators, one of them of weight 0
C3_Witness ==
    /\ IsHistory /\ Len(result.value) >= 1
    /\ Cardinality(Participating) = 2
    /\ ConfigOf("cass").weight = 0
    /\ "cass_z" \in DOMAIN result.value[1]

-----------------------------------------------------------------------------
(* C4: calculate_composite_latest returns 'no indicators configured' when     *)
(* there is no active config, 'no indicator data found' when no active        *)
(* config has an observation, and when an active config without observations  *)
(* stands beside one with data it is dropped: the result is the one the call  *)
(* gives without that config, and neither of those two errors.                *)
WithoutDropped == {c \in indicator_configs : c.series_id \in Participating}

C4_FailureKinds ==
    IsLatest =>
        /\ ActiveSeries = {} => result.value = [error |-> "no indicators configured"]
        /\ (ActiveSeries # {} /\ Participating = {}) =>
               result.value = [error |-> "no indicator data found"]
        /\ (Participating # {} /\ Participating # ActiveSeries) =>
               /\ result.value =
                      calculate_composite_latest(WithoutDropped, observations, result.window)
               /\ LatestError => result.value.error = "not enough aligned data"

\* A composite is returned although one active config has no observation
C4_Witness ==
    /\ LatestOk
    /\ ActiveSeries = Series
    /\ Participating = {"gscpi"}

-----------------------------------------------------------------------------
(* C6: calculate_composite_history over n >= window common months returns     *)
(* n - window + 1 rows, one per common month at index window-1 .. n-1, in     *)
(* strictly ascending month order, the row of index i computed from exactly   *)
(* the `window` common months at indices i-window+1 .. i.                     *)
C6_HistoryRows ==
    LET cm == Sorted(CommonMonths)
        n == Len(cm)
        w == result.window
        rows == result.value
    IN  (IsHistory /\ Participating # {} /\ n >= w) =>
            /\ Len(rows) = n - w + 1
            /\ \A j \in 1..Len(rows) :
                  /\ rows[j].month = cm[w - 1 + j]
                  /\ \A s \in Participating :
                        rows[j][s \o "_z"] =
                            Round3(ZOver(observations, s, SubSeq(cm, j, j + w - 1)))
                  /\ \A k \in 1..w : cm[j + k - 1] <= rows[j].month
            /\ \A j \in 1..(Len(rows) - 1) : rows[j].month < rows[j + 1].month

\* Three common months and window 2: two rows, the second scoring a window
\* that differs from the first
C6_Witness ==
    /\ IsHistory /\ result.window = 2
    /\ Cardinality(CommonMonths) = 3
    /\ Len(result.value) = 2
    /\ "gscpi" \in Participating
    /\ result.value[1]["gscpi_z"] # result.value[2]["gscpi_z"]

-----------------------------------------------------------------------------
(* C7: no look-ahead.  For a data set that differs from the stored one only   *)
(* in the value of an observation dated after month M, the history row for    *)
(* month M is the same.  (Any set of such differences is a chain of single    *)
(* ones, each between two data sets of the specification.)                    *)
RevisedAfter(k) ==
    {(observations \ {o}) \cup {[o EXCEPT !.value = v]} :
        o \in {p \in observations : to_month(p.date) > k}, v \in Values}

C7_NoLookAhead ==
    IsHistory =>
        \A j \in 1..Len(result.value) :
            \A revised \in RevisedAfter(result.value[j].month) :
                calculate_composite_history(indicator_configs, revised, result.window)[j]
                    = result.value[j]

\* A row for a month that is followed by a later observation whose revision
\* changes the next row
C7_Witness ==
    /\ IsHistory /\ Len(result.value) = 2
    /\ \E revised \in RevisedAfter(result.value[1].month) :
           calculate_composite_history(indicator_configs, revised, result.window)[2]
               # result.value[2]

-----------------------------------------------------------------------------
(* C5: regime(z) is total onto the four labels, with half-open buckets        *)
(* inclusive below: z < -0.5 low; -0.5 <= z < 0.5 normal; 0.5 <= z < 1.5      *)
(* elevated; z >= 1.5 crisis; it is monotone in z; and the labels of the      *)
(* composite and of every indicator follow the same buckets.                  *)
RegimeLabels == {"low", "normal", "elevated", "crisis"}

RegimeRank(r) ==
    CASE r = "low" -> 0 [] r = "normal" -> 1 [] r = "elevated" -> 2 [] r = "crisis" -> 3

InBucket(z, r) ==
    /\ r \in RegimeLabels
    /\ (r = "low") <=> (2 * z < -Scale)
    /\ (r = "normal") <=> (-Scale <= 2 * z /\ 2 * z < Scale)
    /\ (r = "elevated") <=> (Scale <= 2 * z /\ 2 * z < 3 * Scale)
    /\ (r = "crisis") <=> (2 * z >= 3 * Scale)

C5_RegimeBuckets ==
    /\ (call.op = "regime" /\ Returned) =>
          /\ InBucket(call.arg, call.ret)
          /\ \A y \in ZSamples :
                y <= call.arg => RegimeRank(regime(y)) <= RegimeRank(call.ret)
    /\ (LatestOk /\ WeightSum > 0) =>
          /\ \A s \in Participating :
                InBucket(ExpectedZ(observations, s, result.value.month, result.window),
                         result.value[s].regime)
          /\ InBucket(ExpectedComposite(result.value.month, result.window),
                      result.value.composite.regime)
    /\ (IsHistory /\ WeightSum > 0) =>
          \A j \in 1..Len(result.value) :
              InBucket(ExpectedComposite(result.value[j].month, result.window),
                       result.value[j].regime)

\* The lower bound of a bucket belongs to it: 0.5 is elevated
C5_Witness ==
    /\ call.op = "regime" /\ Returned
    /\ 2 * call.arg = Scale
    /\ call.ret = "elevated"

-----------------------------------------------------------------------------
(* C10: series_month_map, on observations with pairwise distinct dates in     *)
(* any order, maps each month that has an observation to the observation      *)
(* with the latest date in that month, has no other key, and gives the same   *)
(* result for every permutation of the input.                                 *)
C10_LatestDateWins ==
    (call.op = "series_month_map" /\ Returned) =>
        LET obs == Range(call.arg)
            m == call.ret
        IN  /\ DOMAIN m = {to_month(o.date) : o \in obs}
            /\ \A k \in DOMAIN m :
                  /\ m[k] \in obs
                  /\ to_month(m[k].date) = k
                  /\ \A o \in obs : to_month(o.date) = k => o.date <= m[k].date
            /\ \A permuted \in Perms(obs) : series_month_map(permuted) = m

\* The later of two observations of a month comes first in the input and is kept
C10_Witness ==
    /\ call.op = "series_month_map" /\ Returned
    /\ Len(call.arg) >= 2
    /\ to_month(call.arg[1].date) = to_month(call.arg[2].date)
    /\ call.arg[1].date > call.arg[2].date
    /\ call.ret[to_month(call.arg[1].date)] = call.arg[1]

-----------------------------------------------------------------------------
(* C11: the common months used for scoring are exactly the intersection of    *)
(* the month sets of all participating series, ascending, and do not depend   *)
(* on the order in which the series are supplied.                              *)

\* The config table with the display orders mirrored, so that
\* get_active_indicators supplies the series in the opposite order
Reordered(cfgTable) == {[c EXCEPT !.display_order = 4 - c.display_order] : c \in cfgTable}

\* The months of the rows of a history, in row order
RowMonths(rows) == [j \in 1..Len(rows) |-> rows[j].month]

\* The intersection of the month sets of the participating series
MonthIntersection ==
    {k \in UNION {MonthsOf(observations, s) : s \in Participating} :
        \A s \in Participating : k \in MonthsOf(observations, s)}

-----------------------------------------------------------------------------
(* C12: zscore(xs, x) returns exactly 0.0, for every x, whenever xs has fewer  *)
(* than 2 elements or all elements of xs are identical; on these inputs it     *)
(* returns a value (it divides by no zero standard deviation).                 *)
DegenerateWindow(xs) == Len(xs) < 2 \/ \A i, j \in 1..Len(xs) : xs[i] = xs[j]

C12_DegenerateZscoreIsZero ==
    /\ (call.op = "zscore" /\ Returned /\ DegenerateWindow(call.arg[1])) => call.ret = 0
    /\ (call.op = "zscore" /\ ~Returned) => ENABLED CallZscore

\* A constant window of three values scored at a value away from them
C12_Witness ==
    /\ call.op = "zscore" /\ Returned
    /\ call.arg[1] = <<2, 2, 2>> /\ call.arg[2] = 3
    /\ call.ret = 0

-----------------------------------------------------------------------------
(* SpecScoring: calls of the composite calculator on complete data sets whose  *)
(* configs carry weights of any sign and size (the column is an unconstrained  *)
(* Float), over windows of WINDOW and WINDOW + 1 months.                        *)

\* Weights of the configs: zero, negative, and two large ones that put a
\* composite just below a regime threshold
FineWeights(s) == IF s = "gscpi" THEN {0, 1, 2001} ELSE {-1, 0, 1999}

ScoringConfigTables ==
    {{[series_id |-> s, include_in_composite |-> TRUE, weight |-> w[s],
       invert_sign |-> (s = "gscpi" /\ inv), display_order |-> SeedDisplayOrder(s)]
          : s \in Series}
        : w \in {g \in [Series -> UNION {FineWeights(s) : s \in Series}] :
                     \A s \in Series : g[s] \in FineWeights(s)},
          inv \in BOOLEAN}

\* observations tables in which every series has a row for every month
CompleteObservationTables ==
    {T \in ObservationTables(MonthlyDates) :
        \A s \in Series : \A d \in MonthlyDates : \E o \in T : o.series_id = s /\ o.date = d}

ScoringWindows == {WINDOW, WINDOW + 1}

InitScoring ==
    /\ indicator_configs \in ScoringConfigTables
    /\ observations \in CompleteObservationTables
    /\ call = NoCall
    /\ market_series = {}
    /\ market_prices = {}
    /\ regime_returns = {}
    /\ result = NoResult
    /\ pc = "idle"
    /\ run = NoRun
    /\ reader = [request |-> "none"]

NextScoring ==
    \/ \E window \in ScoringWindows : CompositeLatest(window)
    \/ \E window \in ScoringWindows : CompositeHistory(window)

SpecScoring == InitScoring /\ [][NextScoring]_vars

\* sum(z_i * weight_i) over the participating indicators, z_i unrounded
WeightedZSum(k, window) ==
    SumOver(Participating,
            [s \in Participating |-> ExpectedZ(observations, s, k, window) * ConfigOf(s).weight])

-----------------------------------------------------------------------------
(* C13: when the weights of the indicators that produced a result sum to 0,   *)
(* calculate_composite_latest and calculate_composite_history do not fail:    *)
(* the composite score is 0.0 and its regime is 'normal'.                      *)
C13_ZeroWeightSumGivesZero ==
    LET n == Cardinality(CommonMonths)
        w == result.window
    IN  /\ (IsLatest /\ WeightSum = 0 /\ n >= w) =>
              /\ LatestOk
              /\ result.value.composite = [score |-> 0, regime |-> "normal"]
        /\ (IsHistory /\ WeightSum = 0 /\ n >= w) =>
              /\ Len(result.value) = n - w + 1
              /\ \A j \in 1..Len(result.value) :
                    /\ result.value[j].composite = 0
                    /\ result.value[j].regime = "normal"

\* Weights 1 and -1 on two indicators whose weighted z-scores do not cancel
C13_Witness ==
    /\ LatestOk
    /\ ConfigOf("gscpi").weight = 1 /\ ConfigOf("cass").weight = -1
    /\ WeightedZSum(result.value.month, result.window) # 0
    /\ result.value.composite.score = 0

-----------------------------------------------------------------------------
(* C14 as stated: a composite score is computable only when the weight sum    *)
(* over the included indicators is > 0; when it is not, the computation        *)
(* reports an error rather than a zero score.  Refuted: the code returns the   *)
(* score 0.0.                                                                  *)
C14_ErrorWithoutPositiveWeightSum ==
    /\ (IsLatest /\ WeightSum <= 0) => LatestError
    /\ (IsHistory /\ WeightSum <= 0) => result.value = <<>>

\* A composite of score 0.0 is returned for a negative weight sum
C14_Witness ==
    /\ LatestOk
    /\ WeightSum < 0
    /\ result.value.composite.score = 0

-----------------------------------------------------------------------------
(* C16: rounding to 3 decimals is applied to the reported z_score, score and  *)
(* composite fields only: the weighted sum accumulates unrounded z-scores and  *)
(* every regime label is classified from the unrounded value, also where the   *)
(* rounded value falls into another bucket.                                    *)
UnroundedComposite(k, window) ==
    IF WeightSum > 0 THEN RoundDiv(WeightedZSum(k, window), WeightSum) ELSE 0

C16_RoundingOnlyWhenReported ==
    /\ LatestOk =>
          LET k == result.value.month
              w == result.window
          IN  /\ \A s \in Participating :
                    LET z == ExpectedZ(observations, s, k, w)
                    IN  /\ result.value[s].z_score = Round3(z)
                        /\ result.value[s].regime = regime(z)
              /\ result.value.composite.score = Round3(UnroundedComposite(k, w))
              /\ result.value.composite.regime = regime(UnroundedComposite(k, w))
    /\ IsHistory =>
          \A j \in 1..Len(result.value) :
              LET row == result.value[j]
                  w == result.window
              IN  /\ \A s \in Participating :
                        row[s \o "_z"] = Round3(ExpectedZ(observations, s, row.month, w))
                  /\ row.composite = Round3(UnroundedComposite(row.month, w))
                  /\ row.regime = regime(UnroundedComposite(row.month, w))

\* A composite of 0.49975 is reported as 0.5 with the regime of 0.49975, and a
\* z-score is reported rounded
C16_Witness ==
    /\ LatestOk
    /\ UnroundedComposite(result.value.month, result.window) # result.value.composite.score
    /\ 2 * result.value.composite.score = Scale
    /\ result.value.composite.regime = "normal"
    /\ regime(result.value.composite.score) = "elevated"

-----------------------------------------------------------------------------
(* C15: for an indicator whose config has invert_sign = true the reported     *)
(* z-score is the negation of the raw z-score, its regime is classified from  *)
(* the negated value and the negated value enters the weighted composite;     *)
(* with invert_sign = false the raw z-score is used unchanged.                 *)

\* The raw z-score of series s for the row of month k: the value of month k
\* scored against the values of the trailing window, no sign applied
RawZ(s, k, window) ==
    LET months == TrailingMonths(k, window)
        xs == [j \in 1..Len(months) |-> RepObs(observations, s, months[j]).value]
    IN  zscore(xs, xs[Len(xs)])

UsedZ(s, k, window) ==
    IF ConfigOf(s).invert_sign THEN -RawZ(s, k, window) ELSE RawZ(s, k, window)

CompositeOfUsedZ(k, window) ==
    RoundDiv(SumOver(Participating,
                     [s \in Participating |-> UsedZ(s, k, window) * ConfigOf(s).weight]),
             WeightSum)

C15_InvertSign ==
    /\ LatestOk =>
          LET k == result.value.month
              w == result.window
          IN  /\ \A s \in Participating :
                    /\ result.value[s].z_score = Round3(UsedZ(s, k, w))
                    /\ result.value[s].regime = regime(UsedZ(s, k, w))
              /\ WeightSum > 0 =>
                    result.value.composite.score = Round3(CompositeOfUsedZ(k, w))
    /\ IsHistory =>
          \A j \in 1..Len(result.value) :
              LET row == result.value[j]
                  w == result.window
              IN  /\ \A s \in Participating :
                        row[s \o "_z"] = Round3(UsedZ(s, row.month, w))
                  /\ WeightSum > 0 => row.composite = Round3(CompositeOfUsedZ(row.month, w))

\* A raw z-score of +1.0 on an inverted indicator is reported as -1.0 with
\* regime low and makes the composite negative
C15_Witness ==
    /\ LatestOk
    /\ Participating = {"gscpi"}
    /\ ConfigOf("gscpi").invert_sign /\ ConfigOf("gscpi").weight = 2
    /\ RawZ("gscpi", result.value.month, result.window) = Scale
    /\ result.value["gscpi"].z_score = -Scale
    /\ result.value["gscpi"].regime = "low"
    /\ result.value.composite.score = -Scale

-----------------------------------------------------------------------------
(* What the claims about compute_monthly_returns speak of *)

\* month -> the adjusted close of the entry with the latest date in the month
LatestDatePrice(prices) ==
    [k \in {to_month(prices[i].date) : i \in 1..Len(prices)} |->
        LET i == CHOOSE h \in 1..Len(prices) :
                     /\ to_month(prices[h].date) = k
                     /\ \A g \in 1..Len(prices) :
                            to_month(prices[g].date) = k => prices[g].date <= prices[h].date
        IN  prices[i].adjusted_close]

\* month -> the adjusted close of the entry that comes last in the list among
\* those of the month
LastListedPrice(prices) ==
    [k \in {to_month(prices[i].date) : i \in 1..Len(prices)} |->
        LET i == CHOOSE h \in 1..Len(prices) :
                     /\ to_month(prices[h].date) = k
                     /\ \A g \in 1..Len(prices) : to_month(prices[g].date) = k => g <= h
        IN  prices[i].adjusted_close]

\* The priced month before month m
PrecedingMonth(month_price, m) ==
    CHOOSE p \in DOMAIN month_price :
        p < m /\ \A j \in DOMAIN month_price : j < m => j <= p

\* The months that get a return: those with a preceding priced month of positive price
ReturnMonths(month_price) ==
    {m \in DOMAIN month_price :
        /\ \E p \in DOMAIN month_price : p < m
        /\ month_price[PrecedingMonth(month_price, m)] > 0}

\* month -> (price[m] - price[p]) / price[p], p the preceding priced month
ReturnsOver(month_price) ==
    [m \in ReturnMonths(month_price) |->
        LET p == PrecedingMonth(month_price, m)
        IN  RoundDiv((month_price[m] - month_price[p]) * Scale, month_price[p])]

SortedByDate(prices) == \A i \in 1..(Len(prices) - 1) : prices[i].date < prices[i + 1].date

MonthlyReturnsReturned == call.op = "compute_monthly_returns" /\ Returned

-----------------------------------------------------------------------------
(* C17 as stated: for any input sequence, whatever its order, the price        *)
(* compute_monthly_returns uses for a month is that of the entry with the      *)
(* latest date in the month.  Refuted: the entry listed last is used.          *)
C17_LatestDateWinsAnyOrder ==
    MonthlyReturnsReturned => call.ret = ReturnsOver(LatestDatePrice(call.arg))

(* C17 amended: the price used for a month is that of the entry listed last   *)
(* among the month's entries; for an input sorted by date ascending, as the    *)
(* function's contract asks, that is the entry with the latest date.           *)
C17_LastListedWins ==
    MonthlyReturnsReturned =>
        /\ call.ret = ReturnsOver(LastListedPrice(call.arg))
        /\ SortedByDate(call.arg) => call.ret = ReturnsOver(LatestDatePrice(call.arg))

\* A sorted list with two entries of different price in the second month: the
\* return of that month is that of the later entry
C17_Witness ==
    /\ MonthlyReturnsReturned
    /\ SortedByDate(call.arg) /\ Len(call.arg) = 3
    /\ call.arg[1].adjusted_close = 1
    /\ to_month(call.arg[2].date) = to_month(call.arg[3].date)
    /\ call.arg[2].adjusted_close = 1 /\ call.arg[3].adjusted_close = 2
    /\ call.ret[to_month(call.arg[3].date)] = Scale

-----------------------------------------------------------------------------
(* C18: compute_monthly_returns, over the months that have a price in          *)
(* ascending order: the first month has no return; a later month m whose       *)
(* preceding priced month p has price[p] > 0 gets (price[m] - price[p]) /      *)
(* price[p], a halving giving exactly -0.5; a month whose preceding price is    *)
(* <= 0 is absent from the result; empty input gives an empty result.           *)
C18_MonthOverMonthReturns ==
    MonthlyReturnsReturned =>
        LET month_price == LastListedPrice(call.arg)
            months == Sorted(DOMAIN month_price)
        IN  /\ call.arg = <<>> => call.ret = <<>>
            /\ DOMAIN call.ret \subseteq DOMAIN month_price
            /\ months # <<>> => months[1] \notin DOMAIN call.ret
            /\ \A i \in 2..Len(months) :
                  LET prev == month_price[months[i - 1]]
                      curr == month_price[months[i]]
                  IN  IF prev > 0
                      THEN /\ months[i] \in DOMAIN call.ret
                           /\ call.ret[months[i]] = RoundDiv((curr - prev) * Scale, prev)
                           /\ 2 * curr = prev => 2 * call.ret[months[i]] = -Scale
                      ELSE months[i] \notin DOMAIN call.ret

\* Prices 0, 2, 1 over three months: no return for the first two months, and
\* -0.5 for the third
C18_Witness ==
    /\ MonthlyReturnsReturned
    /\ SortedByDate(call.arg) /\ Len(call.arg) = 3
    /\ call.arg[1].adjusted_close = 0
    /\ call.arg[2].adjusted_close = 2
    /\ call.arg[3].adjusted_close = 1
    /\ DOMAIN call.ret = {to_month(call.arg[3].date)}
    /\ 2 * call.ret[to_month(call.arg[3].date)] = -Scale

-----------------------------------------------------------------------------
(* regime_analyzer.py: get_regime_context *)

\* ms.theme or "other" (line 167), the NULL theme written "None"
ThemeOf(ms) == IF ms.theme = "None" THEN "other" ELSE ms.theme

\* round(x * 100, 2), in hundredths of a percent
Pct(x) == RoundDiv(x * 100 * 100, Scale)

\* The arrangements of S in descending order of average return: what the
\* stable sort of line 189 can give for the orders the query can return its
\* rows in
RECURSIVE DescendingOrders(_)
DescendingOrders(S) ==
    IF S = {} THEN {<<>>}
    ELSE UNION {{<<x>> \o q : q \in DescendingOrders(S \ {x})} :
                   x \in {y \in S : \A z \in S :
                                        z[1].avg_monthly_return <= y[1].avg_monthly_return}}

\* Lines 180-186: per theme the mean of the average returns, as a percentage,
\* and the number of rows
SectorPerformance(regime_data) ==
    [theme \in {ThemeOf(x[2]) : x \in regime_data} |->
        LET rows == {x \in regime_data : ThemeOf(x[2]) = theme}
        IN  [avg_monthly_return |->
                 RoundDiv(SumOver(rows, [x \in rows |-> x[1].avg_monthly_return]) * 100 * 100,
                          Cardinality(rows) * Scale),
             symbol_count |-> Cardinality(rows)]]

\* An entry of top_performers / bottom_performers, the name left out
PerformerEntry(x) == [symbol |-> x[2].symbol, avg_return_pct |-> Pct(x[1].avg_monthly_return)]

\* The length of the slices [:5] and [-5:]
TopN == 5

\* symbol_returns[:5] (lines 191-194)
TopPerformers(symbol_returns) ==
    [i \in 1..(IF Len(symbol_returns) < TopN THEN Len(symbol_returns) ELSE TopN) |->
        PerformerEntry(symbol_returns[i])]

\* Faulty variant: the lowest five are taken from the front of the list
BottomPerformers_FromFront(symbol_returns) ==
    [i \in 1..(IF Len(symbol_returns) < TopN THEN Len(symbol_returns) ELSE TopN) |->
        PerformerEntry(symbol_returns[i])]

\* symbol_returns[-5:] (lines 196-199)
BottomPerformers(symbol_returns) ==
    LET last == LastN(symbol_returns, TopN)
    IN  [i \in 1..Len(last) |-> PerformerEntry(last[i])]

\* get_regime_context, regime_data the rows of the query of lines 152-157 and
\* symbol_returns those rows after the sort of line 189
get_regime_context(regime_data, symbol_returns, current_regime) ==
    IF regime_data = {}
    THEN [regime |-> current_regime, message |-> "No historical data for this regime"]
    ELSE [regime |-> current_regime,
          sector_performance |-> SectorPerformance(regime_data),
          top_performers |-> TopPerformers(symbol_returns),
          bottom_performers |-> BottomPerformers(symbol_returns)]

-----------------------------------------------------------------------------
(* Spec: the stored data over time.  The tables start as seed.py leaves them.  *)
(* The refresh process ingests what the sources have published and recomputes  *)
(* the regime returns, one step after another (scripts/daily_refresh.py); API  *)
(* requests read the committed tables at any moment, also between the two      *)
(* commits of compute_regime_returns.                                          *)

\* SEED_INDICATOR_CONFIGS (seed.py lines 76-78)
SeedIndicatorConfigs ==
    {[series_id |-> sid, include_in_composite |-> TRUE, weight |-> 1,
      invert_sign |-> FALSE, display_order |-> SeedDisplayOrder(sid)] : sid \in Series}

\* SEED_MARKET_SERIES (seed.py lines 87-88): symbol and theme
SeedMarketSeries == {[symbol |-> "SPY", theme |-> "None"], [symbol |-> "XLI", theme |-> "industrials"]}

Symbols == {ms.symbol : ms \in SeedMarketSeries}

\* What a source has published for a month: one value per series and month
FeedValue(sid, d) == IF sid = "gscpi" THEN 2 - (to_month(d) % 2) ELSE 1 + (to_month(d) % 2)

\* What a fetch returns for a series: the whole history published so far,
\* ascending, as (date string, value) pairs
ObservationBatches(sid) ==
    {[i \in 1..k |-> <<isoformat(DateOf(i - 1, 15)), FeedValue(sid, DateOf(i - 1, 15))>>]
        : k \in 1..NumMonths}

\* Adjusted closes
Prices == {1, 2}

\* SPY starts at 1 and moves freely afterwards, XLI stays at 2
PriceChoices(symbol, i) == IF symbol = "SPY" THEN (IF i = 1 THEN {1} ELSE Prices) ELSE {2}

\* What fetch_yfinance_prices returns for a symbol: the history so far, ascending
PriceBatches(symbol) ==
    UNION {{[i \in 1..k |-> [date |-> DateOf(i - 1, 15), close |-> c[i], adjusted_close |-> c[i]]]
               : c \in {f \in [1..k -> Prices] : \A i \in 1..k : f[i] \in PriceChoices(symbol, i)}}
              : k \in 1..NumMonths}

NoReader == [request |-> "none"]

\* The tables while seed.py's main runs or after it: the indicator configs
\* are seeded (line 143), the market series are (line 144) or are not yet,
\* nothing is ingested
Init ==
    /\ indicator_configs = SeedIndicatorConfigs
    /\ observations = {}
    /\ market_series \in {{}, SeedMarketSeries}
    /\ market_prices = {}
    /\ regime_returns = {}
    /\ result = NoResult
    /\ pc = "idle"
    /\ run = NoRun
    /\ reader = NoReader
    /\ call = NoCall

\* upsert_observations(db, series_id, rows)
UpsertObservations(series_id, rows) ==
    /\ pc = "idle"
    /\ observations' = observations \cup Range(ObservationsToAdd(observations, series_id, rows))
    /\ reader' = NoReader
    /\ UNCHANGED <<indicator_configs, market_series, market_prices, regime_returns,
                   result, pc, run, call>>

\* seed_market_series (seed.py lines 126-137) and ensure_market_series
\* (ingest_market_data.py lines 40-58): the series that are missing are added
EnsureMarketSeries ==
    /\ pc = "idle"
    /\ LET existing == {ms.symbol : ms \in market_series}
           to_add == {ms \in SeedMarketSeries : ms.symbol \notin existing}
       IN  /\ to_add # {}
           /\ market_series' = market_series \cup to_add
    /\ reader' = NoReader
    /\ UNCHANGED <<indicator_configs, observations, market_prices, regime_returns,
                   result, pc, run, call>>

\* upsert_prices(db, symbol, prices), called by ingest_market_data.main for a
\* symbol after ensure_market_series (lines 127-137)
UpsertPrices(symbol, prices) ==
    /\ pc = "idle"
    /\ symbol \in {ms.symbol : ms \in market_series}
    /\ market_prices' = market_prices \cup Range(PricesToAdd(market_prices, symbol, prices))
    /\ reader' = NoReader
    /\ UNCHANGED <<indicator_configs, observations, market_series, regime_returns,
                   result, pc, run, call>>

\* db.execute(delete(RegimeReturn)), kept where the delete leaves the rows
ClearedRegimeReturns_KeepsRows(table) == table

\* db.execute(delete(RegimeReturn)) (line 81): the table without its rows
ClearedRegimeReturns(table) == {}

\* Faulty variant: only the empty history returns early
NothingToCompute_IgnoresSymbols(composite_history, symbols) == composite_history = <<>>

\* `not composite_history` (line 65) or `not symbols` (line 76)
NothingToCompute(composite_history, symbols) == composite_history = <<>> \/ symbols = {}

\* compute_regime_returns, lines 63-84: the early returns, or the delete of
\* all rows and its commit
BeginRegimeReturns ==
    /\ pc = "idle"
    /\ LET composite_history ==
               calculate_composite_history(indicator_configs, observations, WINDOW)
       IN  IF NothingToCompute(composite_history, market_series)
           THEN /\ pc' = "returned"
                /\ run' = [NoRun EXCEPT !.previous = regime_returns]
                /\ UNCHANGED regime_returns
           ELSE \E symbols \in Perms({ms.symbol : ms \in market_series}) :
                    /\ regime_returns' = ClearedRegimeReturns(regime_returns)
                    /\ pc' = "symbols"
                    /\ run' = [month_regime |-> MonthRegime(composite_history),
                               symbols |-> symbols,
                               session |-> {},
                               records_inserted |-> 0,
                               previous |-> regime_returns]
    /\ reader' = NoReader
    /\ UNCHANGED <<indicator_configs, observations, market_series, market_prices,
                   result, call>>

\* compute_regime_returns, one pass of the loop over symbols (lines 86-135):
\* the rows are added to the session, not yet committed
ProcessSymbol ==
    /\ pc = "symbols"
    /\ run.symbols # <<>>
    /\ LET rows == SymbolRows(market_prices, run.month_regime, Head(run.symbols))
       IN  run' = [run EXCEPT !.symbols = Tail(run.symbols),
                              !.session = run.session \cup rows,
                              !.records_inserted = run.records_inserted + Cardinality(rows)]
    /\ reader' = NoReader
    /\ UNCHANGED <<dbVars, pc, result, call>>

\* compute_regime_returns, lines 137-138: the commit of the session's rows
\* and the return of records_inserted
CommitRegimeReturns ==
    /\ pc = "symbols"
    /\ run.symbols = <<>>
    /\ regime_returns' = regime_returns \cup run.session
    /\ pc' = "returned"
    /\ reader' = NoReader
    /\ UNCHANGED <<indicator_configs, observations, market_series, market_prices,
                   run, result, call>>

\* regime_analyzer.main after compute_regime_returns has returned
RegimeMainDone ==
    /\ pc = "returned"
    /\ pc' = "idle"
    /\ run' = NoRun
    /\ reader' = NoReader
    /\ UNCHANGED <<dbVars, result, call>>

\* The (RegimeReturn, MarketSeries) rows a request reads from the committed
\* tables, the regime filter applied when one is given
JoinedRows(table, regime_filter) ==
    {x \in table \X market_series :
        /\ x[1].symbol = x[2].symbol
        /\ regime_filter # "None" => x[1].regime = regime_filter}

\* Faulty variant: a result without a composite gives the regime "unknown"
CurrentRegimeOf_ErrorSurfaced(composite) ==
    IF "composite" \in DOMAIN composite THEN composite.composite.regime ELSE "unknown"

\* composite.get("composite", {}).get("regime", "normal") (line 110)
CurrentRegimeOf(composite) ==
    IF "composite" \in DOMAIN composite THEN composite.composite.regime ELSE "normal"

\* composite.get("composite", {}).get("score") (line 160); None is <<>>, a
\* value v is <<v>>
CompositeScoreOf(composite) ==
    IF "composite" \in DOMAIN composite THEN <<composite.composite.score>> ELSE <<>>

\* The entry of symbols_data for a series with prices (lines 117-153), name
\* and type left out
SymbolEntry(s, current_regime) ==
    LET prices == ByDate({p \in market_prices : p.symbol = s.symbol})
        latest == prices[Len(prices)]
        prev == prices[Len(prices) - 1]
        daily_return == IF Len(prices) > 1 /\ prev.adjusted_close > 0
                        THEN <<MonthlyReturn(prev.adjusted_close, latest.adjusted_close)>>
                        ELSE <<>>
        regime_return == {rr \in regime_returns :
                              rr.symbol = s.symbol /\ rr.regime = current_regime}
    IN  [symbol |-> s.symbol,
         theme |-> s.theme,
         latest_date |-> isoformat(latest.date),
         latest_price |-> latest.adjusted_close,
         daily_return_pct |-> IF daily_return # <<>> /\ daily_return # <<0>>
                              THEN <<Pct(daily_return[1])>> ELSE <<>>,
         regime_avg_return_pct |->
             IF regime_return # {}
             THEN <<Pct((CHOOSE rr \in regime_return : TRUE).avg_monthly_return)>>
             ELSE <<>>]

\* GET /market/current (routers/market.py lines 98-163): the current regime is
\* that of the latest composite, "normal" when there is none; symbols_data has
\* an entry for each series with prices; get_regime_context reads the stored
\* rows of the current regime
GetCurrentMarket ==
    /\ LET composite == calculate_composite_latest(indicator_configs, observations, WINDOW)
           current_regime == CurrentRegimeOf(composite)
           regime_data == JoinedRows(regime_returns, current_regime)
           with_prices == {s \in market_series :
                               \E p \in market_prices : p.symbol = s.symbol}
       IN  \E symbol_returns \in DescendingOrders(regime_data) :
               reader' = [request |-> "current", regime |-> current_regime,
                          regime_data |-> regime_data,
                          during_run |-> pc = "symbols",
                          composite_score |-> CompositeScoreOf(composite),
                          symbols |-> {SymbolEntry(s, current_regime) : s \in with_prices},
                          regime_context |-> get_regime_context(regime_data, symbol_returns,
                                                                current_regime)]
    /\ UNCHANGED <<dbVars, pc, run, result, call>>

\* GET /market/regime-returns (routers/market.py lines 60-93), no theme filter
GetRegimeReturns(regime_filter) ==
    /\ reader' = [request |-> "regime-returns", regime |-> regime_filter,
                  regime_data |-> JoinedRows(regime_returns, regime_filter),
                  during_run |-> pc = "symbols"]
    /\ UNCHANGED <<dbVars, pc, run, result, call>>

Next ==
    \/ \E sid \in Series : \E rows \in ObservationBatches(sid) : UpsertObservations(sid, rows)
    \/ EnsureMarketSeries
    \/ \E symbol \in Symbols : \E prices \in PriceBatches(symbol) : UpsertPrices(symbol, prices)
    \/ BeginRegimeReturns
    \/ ProcessSymbol
    \/ CommitRegimeReturns
    \/ RegimeMainDone
    \/ GetCurrentMarket
    \/ GetRegimeReturns("None")

Spec == Init /\ [][Next]_vars

-----------------------------------------------------------------------------
(* Claims about the stored regime returns *)

\* No two stored rows have the same symbol and regime
OneRowPerSymbolRegime ==
    \A a, b \in regime_returns : a.symbol = b.symbol /\ a.regime = b.regime => a = b

\* The run that has just returned took an early return (lines 65-67, 76-78)
ReturnedEarly ==
    \/ calculate_composite_history(indicator_configs, observations, WINDOW) = <<>>
    \/ market_series = {}

\* C8 as stated: when a run of compute_regime_returns has returned, the table
\* holds exactly the records that run computed and at most one row per
\* (symbol, regime).  Refuted: a run that finds no composite history returns
\* before the delete and the rows of an earlier run stay.
C8_FullRebuild ==
    pc = "returned" => regime_returns = run.session /\ OneRowPerSymbolRegime

\* C8 amended: the table never holds two rows for one (symbol, regime); when a
\* run has returned after its delete, the table holds exactly the records of
\* that run; when it has returned early, the table is as it was before the run.
C8_RebuildUnlessEarlyReturn ==
    /\ OneRowPerSymbolRegime
    /\ pc = "returned" =>
           IF ReturnedEarly THEN regime_returns = run.previous
                            ELSE regime_returns = run.session

\* A run has replaced the rows of an earlier run by other rows
C8_Witness ==
    /\ pc = "returned"
    /\ ~ReturnedEarly
    /\ run.session # {}
    /\ \E old \in run.previous : old \notin regime_returns
    /\ regime_returns = run.session

\* The rows the run in progress stores in all: those of every symbol
CompleteSession ==
    UNION {SymbolRows(market_prices, run.month_regime, ms.symbol) : ms \in market_series}

\* C9 as stated: a request that reads regime_returns while a recompute is in
\* progress gets the rows of the complete previous result or those of the
\* complete new one.  Refuted: the delete is committed (line 82) before the
\* new rows are (line 137), and a request in between reads the emptied table.
C9_ReadersSeeCompleteResult ==
    reader.request # "none" /\ reader.during_run =>
        \/ reader.regime_data = JoinedRows(run.previous, reader.regime)
        \/ reader.regime_data = JoinedRows(CompleteSession, reader.regime)

\* A request has read an empty table between the two commits, the previous
\* result and the new result both having rows
C9_Witness ==
    /\ reader.request = "regime-returns"
    /\ reader.during_run
    /\ reader.regime_data = {}
    /\ run.previous # {}
    /\ CompleteSession # {}

-----------------------------------------------------------------------------
(* What the claims about the stored statistics speak of *)

\* A run has returned after rebuilding the table
RebuildDone == pc = "returned" /\ ~ReturnedEarly

\* month -> return of a symbol, from its stored prices
StoredReturns(symbol) ==
    ReturnsOver(LatestDatePrice(ByDate({p \in market_prices : p.symbol = symbol})))

\* month -> regime of the composite history of the stored data
HistoryRegime ==
    LET history == calculate_composite_history(indicator_configs, observations, WINDOW)
    IN  [k \in {history[j].month : j \in 1..Len(history)} |->
            (CHOOSE row \in Range(history) : row.month = k).regime]

\* The months of returns to which month_regime gives regime r
BucketMonths(returns, month_regime, r) ==
    {m \in DOMAIN returns : m \in DOMAIN month_regime /\ month_regime[m] = r}

RowsOf(symbol) == {row \in regime_returns : row.symbol = symbol}

StoredSymbols == {ms.symbol : ms \in market_series}

-----------------------------------------------------------------------------
(* C19: compute_regime_returns puts each monthly return into the bucket of    *)
(* the regime the composite history gives to the return's own month, and into  *)
(* none when the month is not in the history: for each symbol the sample       *)
(* counts over the four regimes sum to the number of its return months that    *)
(* are history months.                                                         *)
C19_ReturnsBucketedByOwnMonth ==
    RebuildDone =>
        LET month_regime == HistoryRegime
        IN  \A symbol \in StoredSymbols :
                LET returns == StoredReturns(symbol)
                IN  /\ \A r \in RegimeLabels :
                          LET rows == {row \in RowsOf(symbol) : row.regime = r}
                              months == BucketMonths(returns, month_regime, r)
                          IN  IF months = {} THEN rows = {}
                              ELSE \E row \in rows : row.sample_count = Cardinality(months)
                    /\ SumOver(RowsOf(symbol), [row \in RowsOf(symbol) |-> row.sample_count])
                           = Cardinality(DOMAIN returns \cap DOMAIN month_regime)

\* SPY has two return months, one of them after the last month of the
\* history: one sample is stored
C19_Witness ==
    /\ RebuildDone
    /\ Cardinality(DOMAIN StoredReturns("SPY")) = 2
    /\ Cardinality(DOMAIN StoredReturns("SPY") \cap DOMAIN HistoryRegime) = 1
    /\ \E row \in RowsOf("SPY") : row.sample_count = 1
    /\ Cardinality(RowsOf("SPY")) = 1

-----------------------------------------------------------------------------
(* C20: compute_regime_returns stores exactly one record for every (symbol,   *)
(* regime) bucket that has a return and none for an empty bucket; a record's   *)
(* sample_count is the number of returns of its bucket (>= 1), its avg their   *)
(* mean, its std their population standard deviation when the count is > 1     *)
(* and exactly 0.0 when it is 1.                                               *)

\* The returns of a bucket, in month order
BucketReturns(returns, month_regime, r) ==
    LET months == Sorted(BucketMonths(returns, month_regime, r))
    IN  [j \in 1..Len(months) |-> returns[months[j]]]

\* sqrt(sum((x - mean)^2) / n)
PopulationStdev(xs) ==
    LET n == Len(xs)
    IN  Sqrt(RoundDiv(n * SumSeq([i \in 1..n |-> xs[i] * xs[i]]) - SumSeq(xs) * SumSeq(xs),
                      n * n))

C20_OneRecordPerBucket ==
    RebuildDone =>
        LET month_regime == HistoryRegime
        IN  \A symbol \in StoredSymbols :
                LET returns == StoredReturns(symbol)
                IN  \A r \in RegimeLabels :
                        LET rows == {row \in RowsOf(symbol) : row.regime = r}
                            rets == BucketReturns(returns, month_regime, r)
                        IN  /\ Cardinality(rows) = IF rets = <<>> THEN 0 ELSE 1
                            /\ \A row \in rows :
                                  /\ row.sample_count = Len(rets) /\ row.sample_count >= 1
                                  /\ row.avg_monthly_return = RoundDiv(SumSeq(rets), Len(rets))
                                  /\ row.std_monthly_return =
                                         IF Len(rets) > 1 THEN PopulationStdev(rets) ELSE 0

\* SPY doubles and then halves in two months of regime normal: one record of
\* two samples, mean 0.25 and deviation 0.75; XLI without prices has none
C20_Witness ==
    /\ RebuildDone
    /\ RowsOf("SPY") = {[symbol |-> "SPY", regime |-> "normal",
                         avg_monthly_return |-> Scale \div 4,
                         std_monthly_return |-> 3 * (Scale \div 4),
                         sample_count |-> 2]}
    /\ RowsOf("XLI") = {}

-----------------------------------------------------------------------------
(* C21: in compute_regime_returns a symbol with zero price rows is skipped    *)
(* without error and gets no record, and every other symbol of the batch,     *)
(* before or after it in the order of the query, is processed and stored:     *)
(* when the run has returned after its rebuild, a symbol without prices has no *)
(* row, a symbol with prices has a row for exactly the regimes its returns     *)
(* fall into, and the count the run returns is the number of stored rows.      *)

HasNoPrices(symbol) == {p \in market_prices : p.symbol = symbol} = {}

C21_NoPriceSymbolSkipped ==
    RebuildDone =>
        LET month_regime == HistoryRegime
        IN  /\ \A symbol \in StoredSymbols :
                  IF HasNoPrices(symbol) THEN RowsOf(symbol) = {}
                  ELSE LET returns == StoredReturns(symbol)
                       IN  {row.regime : row \in RowsOf(symbol)}
                               = {r \in RegimeLabels :
                                      BucketMonths(returns, month_regime, r) # {}}
            /\ run.records_inserted = Cardinality(regime_returns)

\* XLI has no prices and no row, SPY has prices and its row is stored and counted
C21_Witness ==
    /\ RebuildDone
    /\ HasNoPrices("XLI") /\ RowsOf("XLI") = {}
    /\ ~HasNoPrices("SPY") /\ RowsOf("SPY") # {}
    /\ run.records_inserted = Cardinality(RowsOf("SPY"))

-----------------------------------------------------------------------------
(* SpecIngest: calls of upsert_observations and upsert_prices on a store that  *)
(* starts without observations and prices.  A batch is any list of up to       *)
(* MaxBatch rows, a date possibly twice and possibly with a value other than   *)
(* the stored one.  Rows are told apart by their columns (the autoincrement id *)
(* is left out), so the rows of one batch are pairwise different.              *)

\* The longest batch
MaxBatch == 2

IngestDates == {DateOf(0, 15), DateOf(1, 15)}

\* gscpi and SPY have rows on both dates, cass and XLI on the first
IngestDatesOf(name) == IF name \in {"gscpi", "SPY"} THEN IngestDates ELSE {DateOf(0, 15)}

\* The lists of n pairwise different elements of S
DistinctSeqs(S, n) == {q \in [1..n -> S] : \A i, j \in 1..n : i # j => q[i] # q[j]}

\* rows: (date string, value) pairs
IngestObservationBatches(sid) ==
    LET pairs == UNION {{<<isoformat(d), v>> : v \in ValueChoices(sid, d)}
                           : d \in IngestDatesOf(sid)}
    IN  UNION {DistinctSeqs(pairs, n) : n \in 0..MaxBatch}

IngestPrices(symbol) == IF symbol = "SPY" THEN Prices ELSE {2}

\* prices: dicts as fetch_yfinance_prices builds them, close and adjusted_close alike
IngestPriceBatches(symbol) ==
    LET dicts == {[date |-> d, close |-> v, adjusted_close |-> v] :
                     d \in IngestDatesOf(symbol), v \in IngestPrices(symbol)}
    IN  UNION {DistinctSeqs(dicts, n) : n \in 0..MaxBatch}

InitIngest ==
    /\ indicator_configs = SeedIndicatorConfigs
    /\ observations = {}
    /\ market_series = SeedMarketSeries
    /\ market_prices = {}
    /\ regime_returns = {}
    /\ result = NoResult
    /\ pc = "idle"
    /\ run = NoRun
    /\ reader = NoReader
    /\ call = NoCall

\* upsert_observations(db, series_id, rows): observations has no unique
\* constraint, the commit stores every row of to_add
CallUpsertObservations(series_id, rows) ==
    LET to_add == ObservationsToAdd(observations, series_id, rows)
    IN  /\ observations' = observations \cup Range(to_add)
        /\ call' = [op |-> "upsert_observations", arg |-> <<series_id, rows>>,
                    ret |-> Len(to_add)]
        /\ UNCHANGED <<indicator_configs, market_series, market_prices, regime_returns,
                       result, pc, run, reader>>

\* upsert_prices(db, symbol, prices): the commit of to_add raises IntegrityError
\* and stores nothing when it violates the unique constraint
CallUpsertPrices(symbol, prices) ==
    LET to_add == PricesToAdd(market_prices, symbol, prices)
    IN  /\ IF UniqueViolation(to_add)
           THEN /\ market_prices' = market_prices
                /\ call' = [op |-> "upsert_prices", arg |-> <<symbol, prices>>,
                            raised |-> "IntegrityError"]
           ELSE /\ market_prices' = market_prices \cup Range(to_add)
                /\ call' = [op |-> "upsert_prices", arg |-> <<symbol, prices>>,
                            ret |-> Len(to_add)]
        /\ UNCHANGED <<indicator_configs, observations, market_series, regime_returns,
                       result, pc, run, reader>>

NextIngest ==
    \/ \E sid \in Series : \E rows \in IngestObservationBatches(sid) :
           CallUpsertObservations(sid, rows)
    \/ \E symbol \in Symbols : \E prices \in IngestPriceBatches(symbol) :
           CallUpsertPrices(symbol, prices)

SpecIngest == InitIngest /\ [][NextIngest]_vars

-----------------------------------------------------------------------------
(* C22: stored observations and prices are immutable and ingestion only adds. *)
(* Over every step of every sequence of upsert calls: each stored row is still *)
(* stored with its value; a row that is added has a (series or symbol, date)   *)
(* that was not stored, so an incoming row whose key is stored is skipped also *)
(* when its value differs; and the repeat of a call that returned, with the    *)
(* same batch, returns 0 and adds nothing.                                     *)

StoredObservationKeys == {<<o.series_id, o.date>> : o \in observations}

StoredPriceKeys == {<<p.symbol, p.date>> : p \in market_prices}

C22_AdditiveUpserts ==
    [][/\ observations \subseteq observations'
       /\ market_prices \subseteq market_prices'
       /\ \A o \in observations' \ observations :
              <<o.series_id, o.date>> \notin StoredObservationKeys
       /\ \A p \in market_prices' \ market_prices :
              <<p.symbol, p.date>> \notin StoredPriceKeys
       /\ (Returned /\ call'.op = call.op /\ call'.arg = call.arg) =>
              /\ "ret" \in DOMAIN call' /\ call'.ret = 0
              /\ observations' = observations
              /\ market_prices' = market_prices]_vars

\* A call has returned 0 for a batch of one row whose date is stored for the
\* series with another value; the stored value is the only one for that date
C22_Witness ==
    /\ call.op = "upsert_observations"
    /\ Returned /\ call.ret = 0
    /\ Len(call.arg[2]) = 1
    /\ \E o \in observations :
           /\ o.series_id = call.arg[1]
           /\ o.date = fromisoformat(call.arg[2][1][1])
           /\ o.value # call.arg[2][1][2]
           /\ \A p \in observations : p.series_id = o.series_id /\ p.date = o.date => p = o

-----------------------------------------------------------------------------
(* C29 *)

OneObservationPerKey ==
    \A a, b \in observations : a.series_id = b.series_id /\ a.date = b.date => a = b

OnePricePerKey ==
    \A a, b \in market_prices : a.symbol = b.symbol /\ a.date = b.date => a = b

Raised == "raised" \in DOMAIN call

\* C29 as stated: after any sequence of upsert calls from an empty store,
\* batches with a date twice included, the store holds at most one row per
\* (series_id, date) and per (symbol, date) and no call has failed.  Refuted:
\* the stored dates are read once, before the loop over the batch.
C29_OneRowPerKeyNoFailure == OneObservationPerKey /\ OnePricePerKey /\ ~Raised

\* The list of dates has a date twice that is not among the stored ones
TwiceNew(dates, stored) ==
    \E i, j \in 1..Len(dates) : i < j /\ dates[i] = dates[j] /\ dates[i] \notin stored

ObservationBatchDates(rows) == [i \in 1..Len(rows) |-> fromisoformat(rows[i][1])]

PriceBatchDates(prices) == [i \in 1..Len(prices) |-> prices[i].date]

\* C29 amended: market_prices holds at most one row per (symbol, date) at all
\* times; a call of upsert_prices raises exactly when its batch has twice a
\* date that is not stored for the symbol, and then stores nothing; a call of
\* upsert_observations never raises, and two rows of one (series_id, date) come
\* to be stored exactly when its batch has twice a date that is not stored for
\* the series.
C29_DuplicatesOnlyFromOneBatch ==
    [][/\ \A a, b \in market_prices' : a.symbol = b.symbol /\ a.date = b.date => a = b
       /\ call'.op = "upsert_prices" =>
              LET stored == {p.date : p \in {q \in market_prices : q.symbol = call'.arg[1]}}
                  twice == TwiceNew(PriceBatchDates(call'.arg[2]), stored)
              IN  /\ ("raised" \in DOMAIN call') <=> twice
                  /\ twice => market_prices' = market_prices
       /\ call'.op = "upsert_observations" =>
              LET stored == {o.date : o \in {q \in observations : q.series_id = call'.arg[1]}}
                  twice == TwiceNew(ObservationBatchDates(call'.arg[2]), stored)
                  doubled == \E a, b \in observations' :
                                 /\ a.series_id = b.series_id /\ a.date = b.date /\ a # b
                                 /\ ~(a \in observations /\ b \in observations)
              IN  /\ "ret" \in DOMAIN call'
                  /\ doubled <=> twice]_vars

\* Two observations of one series and date are stored, and a call of
\* upsert_prices with a date twice has raised and left the prices without rows
C29_Witness ==
    /\ ~OneObservationPerKey
    /\ call.op = "upsert_prices" /\ Raised
    /\ Len(call.arg[2]) = 2 /\ call.arg[2][1].date = call.arg[2][2].date
    /\ market_prices = {}

-----------------------------------------------------------------------------
(* SpecContext: calls of get_regime_context on stored regime returns of the   *)
(* first NumContextSymbols seeded market series.                               *)

NumContextSymbols == 6

\* SEED_MARKET_SERIES (seed.py lines 86-98): symbol and theme, in list order
SeedMarketList ==
    << [symbol |-> "SPY", theme |-> "None"], [symbol |-> "XLI", theme |-> "industrials"],
       [symbol |-> "XLY", theme |-> "consumer"], [symbol |-> "XLK", theme |-> "technology"],
       [symbol |-> "SMH", theme |-> "chips"], [symbol |-> "NVDA", theme |-> "chips"],
       [symbol |-> "TSM", theme |-> "chips"], [symbol |-> "AVGO", theme |-> "chips"],
       [symbol |-> "AMZN", theme |-> "logistics"], [symbol |-> "COST", theme |-> "retail"],
       [symbol |-> "WMT", theme |-> "retail"] >>

ContextSeries == {SeedMarketList[i] : i \in 1..NumContextSymbols}

\* The average returns the i-th symbol can have in regime normal: the first
\* two symbols can tie; they and the fifth (SMH, of theme chips as the sixth)
\* can be without a record
ContextAverages(i) ==
    LET size == 6 * (IF i <= 2 THEN 1 ELSE i)
    IN  {size, -size} \cup (IF i \in {1, 2, 5} THEN {0} ELSE {})

\* One average per symbol, for the first n symbols
RECURSIVE ContextChoices(_)
ContextChoices(n) ==
    IF n = 0 THEN {<<>>}
    ELSE {Append(g, a) : g \in ContextChoices(n - 1), a \in ContextAverages(n)}

ContextRow(symbol, r, avg) ==
    [symbol |-> symbol, regime |-> r, avg_monthly_return |-> avg,
     std_monthly_return |-> 0, sample_count |-> 1]

\* Stored regime returns: at most one row per (symbol, regime); a choice of 0
\* stands for no record; SPY may have a record in regime crisis as well
ContextTables ==
    {{ContextRow(SeedMarketList[i].symbol, "normal", f[i]) :
          i \in {j \in 1..NumContextSymbols : f[j] # 0}} \cup extra :
        f \in ContextChoices(NumContextSymbols),
        extra \in {{}, {ContextRow("SPY", "crisis", 12)}}}

InitContext ==
    /\ indicator_configs = SeedIndicatorConfigs
    /\ observations = {}
    /\ market_series = ContextSeries
    /\ market_prices = {}
    /\ regime_returns \in ContextTables
    /\ result = NoResult
    /\ pc = "idle"
    /\ run = NoRun
    /\ reader = NoReader
    /\ call = NoCall

CallRegimeContext(current_regime) ==
    /\ LET regime_data == JoinedRows(regime_returns, current_regime)
       IN  \E symbol_returns \in DescendingOrders(regime_data) :
               call' = [op |-> "get_regime_context", arg |-> current_regime,
                        ret |-> get_regime_context(regime_data, symbol_returns,
                                                   current_regime)]
    /\ UNCHANGED <<dbVars, result, pc, run, reader>>

NextContext == \E current_regime \in RegimeLabels : CallRegimeContext(current_regime)

SpecContext == InitContext /\ [][NextContext]_vars

-----------------------------------------------------------------------------
(* C23: get_regime_context(current_regime) uses only the stored records whose *)
(* regime is current_regime, changes no stored data, and ranks the symbols by  *)
(* average return: top_performers are the (up to) 5 symbols of highest average *)
(* in descending order, bottom_performers the (up to) 5 of lowest average, and *)
(* sector_performance has, for each theme among those records, the mean of its *)
(* symbols' averages and as symbol_count the number of its symbols that have a *)
(* record in that regime.                                                      *)

\* The stored records of regime r whose symbol is a market series
RecordsOf(r) == {rr \in regime_returns : rr.regime = r /\ rr.symbol \in StoredSymbols}

ThemeOfSymbol(symbol) ==
    LET ms == CHOOSE m \in market_series : m.symbol = symbol
    IN  IF ms.theme = "None" THEN "other" ELSE ms.theme

\* list names Len(list) different symbols of recs in descending order of
\* average, each with its average as a percentage
RanksRecords(list, recs) ==
    /\ \A i \in 1..Len(list) :
           \E rr \in recs : /\ rr.symbol = list[i].symbol
                            /\ list[i].avg_return_pct * Scale = rr.avg_monthly_return * 10000
    /\ \A i, j \in 1..Len(list) : i < j =>
           /\ list[i].symbol # list[j].symbol
           /\ list[i].avg_return_pct >= list[j].avg_return_pct

ContextCorrect ==
    call.op = "get_regime_context" =>
        LET recs == RecordsOf(call.arg)
            ret == call.ret
            size == IF Cardinality(recs) < 5 THEN Cardinality(recs) ELSE 5
        IN  /\ ret.regime = call.arg
            /\ IF recs = {} THEN DOMAIN ret = {"regime", "message"}
               ELSE /\ DOMAIN ret = {"regime", "sector_performance", "top_performers",
                                     "bottom_performers"}
                    /\ Len(ret.top_performers) = size
                    /\ RanksRecords(ret.top_performers, recs)
                    /\ \A rr \in recs :
                           rr.symbol \notin {e.symbol : e \in Range(ret.top_performers)} =>
                               \A e \in Range(ret.top_performers) :
                                   rr.avg_monthly_return * 10000 <= e.avg_return_pct * Scale
                    /\ Len(ret.bottom_performers) = size
                    /\ RanksRecords(ret.bottom_performers, recs)
                    /\ \A rr \in recs :
                           rr.symbol \notin {e.symbol : e \in Range(ret.bottom_performers)} =>
                               \A e \in Range(ret.bottom_performers) :
                                   rr.avg_monthly_return * 10000 >= e.avg_return_pct * Scale
                    /\ DOMAIN ret.sector_performance = {ThemeOfSymbol(rr.symbol) : rr \in recs}
                    /\ \A theme \in DOMAIN ret.sector_performance :
                           LET of_theme == {rr \in recs : ThemeOfSymbol(rr.symbol) = theme}
                               n == Cardinality(of_theme)
                               sum == SumOver(of_theme,
                                              [rr \in of_theme |-> rr.avg_monthly_return])
                           IN  /\ ret.sector_performance[theme].symbol_count = n
                               /\ ret.sector_performance[theme].avg_monthly_return
                                      * n * Scale = sum * 10000

C23_RegimeContext ==
    /\ []ContextCorrect
    /\ [][call'.op = "get_regime_context" => UNCHANGED dbVars]_vars

\* Six symbols have a record in regime normal and SPY one in crisis: XLK,
\* which has the third highest average, is among the top five and among the
\* bottom five; NVDA leads the top five and is not among the bottom five; the
\* theme chips has two symbols and their mean
C23_Witness ==
    /\ call.op = "get_regime_context" /\ call.arg = "normal"
    /\ Cardinality(RecordsOf("normal")) = 6
    /\ \E rr \in regime_returns : rr.regime = "crisis"
    /\ call.ret.top_performers[1].symbol = "NVDA"
    /\ "NVDA" \notin {e.symbol : e \in Range(call.ret.bottom_performers)}
    /\ call.ret.top_performers[3].symbol = "XLK"
    /\ call.ret.bottom_performers[2].symbol = "XLK"
    /\ call.ret.sector_performance["chips"] = [avg_monthly_return |-> 33, symbol_count |-> 2]

-----------------------------------------------------------------------------
(* C24: outside the degenerate branch (a window of at least 2 values whose    *)
(* population standard deviation is >= 1e-6, before and after the              *)
(* transformation) zscore is invariant under shifting every window value and x *)
(* by the same constant c and under scaling them by the same positive constant *)
(* k.  The results are compared up to the rounding of the arithmetic, which    *)
(* here is one unit of 1/Scale.                                               *)

Shifts == {-1, 1, 2}

Factors == {2}

Shifted(xs, c) == [i \in 1..Len(xs) |-> xs[i] + c]

Scaled(xs, k) == [i \in 1..Len(xs) |-> k * xs[i]]

\* n * sum(x^2) - sum(x)^2, the quantity under the root of pstdev
Spread(xs) ==
    Len(xs) * SumSeq([i \in 1..Len(xs) |-> xs[i] * xs[i]]) - SumSeq(xs) * SumSeq(xs)

\* The largest spread whose product with Scale * Scale is a 32-bit integer
MaxSpread == (2147483647 \div Scale) \div Scale

NonDegenerate(xs) ==
    Len(xs) >= 2 /\ Spread(xs) <= MaxSpread /\ ~BelowSdThreshold(pstdev(xs))

C24_ShiftScaleInvariant ==
    (call.op = "zscore" /\ Returned) =>
        LET xs == call.arg[1]
            x == call.arg[2]
        IN  NonDegenerate(xs) =>
                /\ \A c \in Shifts :
                       NonDegenerate(Shifted(xs, c)) =>
                           Abs(zscore(Shifted(xs, c), x + c) - call.ret) <= 1
                /\ \A k \in Factors :
                       NonDegenerate(Scaled(xs, k)) =>
                           Abs(zscore(Scaled(xs, k), k * x) - call.ret) <= 1

\* zscore([1, 2, 2], 3) = 2.8284 has returned, and so do zscore([3, 4, 4], 5)
\* and zscore([2, 4, 4], 6)
C24_Witness ==
    /\ call.op = "zscore" /\ Returned
    /\ call.arg = <<<<1, 2, 2>>, 3>>
    /\ call.ret = 28284
    /\ NonDegenerate(Shifted(call.arg[1], 2)) /\ NonDegenerate(Scaled(call.arg[1], 2))
    /\ zscore(<<3, 4, 4>>, 5) = call.ret
    /\ Abs(zscore(<<2, 4, 4>>, 6) - call.ret) <= 1

-----------------------------------------------------------------------------
(* C25: series_month_map is idempotent: applied to the observations of an     *)
(* already aligned series, that is to the values of a result of its own, in    *)
(* any order, it returns that result again; and applied to any list with at    *)
(* most one observation per month it maps each month to its observation.       *)

OnePerMonth(obs) ==
    \A i, j \in 1..Len(obs) : to_month(obs[i].date) = to_month(obs[j].date) => i = j

C25_AlignIdempotent ==
    (call.op = "series_month_map" /\ Returned) =>
        LET m == call.ret
            aligned == {m[k] : k \in DOMAIN m}
        IN  /\ \A again \in Perms(aligned) : series_month_map(again) = m
            /\ OnePerMonth(call.arg) =>
                   /\ aligned = Range(call.arg)
                   /\ \A i \in 1..Len(call.arg) : m[to_month(call.arg[i].date)] = call.arg[i]

\* Four observations in two months have been aligned to two, and aligning
\* those two gives the same mapping
C25_Witness ==
    /\ call.op = "series_month_map" /\ Returned
    /\ Len(call.arg) = 4
    /\ Cardinality(DOMAIN call.ret) = 2
    /\ \E again \in Perms({call.ret[k] : k \in DOMAIN call.ret}) :
           Len(again) = 2 /\ series_month_map(again) = call.ret

-----------------------------------------------------------------------------
(* C26: on the same stored data and window calculate_composite_history and    *)
(* calculate_composite_latest agree: the history is non-empty exactly when     *)
(* latest returns a result that is no error, and then the last history row has *)
(* the month, the rounded z-score of every indicator, the rounded composite    *)
(* score and the regime of the latest result.                                  *)

\* The last history row and the latest result say the same
SameAsLatest(row, latest) ==
    LET scored == DOMAIN latest \ {"month", "composite", "meta"}
    IN  /\ DOMAIN row = {"month", "composite", "regime"} \cup {s \o "_z" : s \in scored}
        /\ row.month = latest.month
        /\ \A s \in scored : row[s \o "_z"] = latest[s].z_score
        /\ row.composite = latest.composite.score
        /\ row.regime = latest.composite.regime

HistoryAgrees(history, latest) ==
    /\ (history # <<>>) <=> ("error" \notin DOMAIN latest)
    /\ history # <<>> => SameAsLatest(history[Len(history)], latest)

C26_HistoryAgreesWithLatest ==
    /\ IsLatest =>
           HistoryAgrees(calculate_composite_history(indicator_configs, observations,
                                                     result.window),
                         result.value)
    /\ IsHistory =>
           HistoryAgrees(result.value,
                         calculate_composite_latest(indicator_configs, observations,
                                                    result.window))

\* A history of two rows: its last row is the latest result, its first is not
C26_Witness ==
    /\ IsHistory /\ Len(result.value) = 2
    /\ LET latest == calculate_composite_latest(indicator_configs, observations,
                                                result.window)
       IN  /\ "error" \notin DOMAIN latest
           /\ SameAsLatest(result.value[2], latest)
           /\ ~SameAsLatest(result.value[1], latest)
           /\ latest.composite.score # 0
           /\ Cardinality(DOMAIN latest) = 5

-----------------------------------------------------------------------------
(* C27: when the composite history is empty or there are no market symbols,   *)
(* compute_regime_returns returns 0 and leaves regime_returns as it was: the   *)
(* rows of an earlier run are not cleared and are what a reader gets; the      *)
(* table is cleared only when the history and the symbol list are both not     *)
(* empty.                                                                      *)
C27_EarlyReturnKeepsRows ==
    /\ (pc = "returned" /\ ReturnedEarly) =>
           /\ regime_returns = run.previous
           /\ run.records_inserted = 0
           /\ reader.request # "none" =>
                  reader.regime_data = JoinedRows(run.previous, reader.regime)
    /\ pc = "symbols" => ~ReturnedEarly /\ regime_returns = {}
    /\ (pc = "returned" /\ ~ReturnedEarly) =>
           \A row \in run.previous : row \in regime_returns => row \in run.session

\* A run has returned 0 at once because the history is empty, and a request
\* after it reads the rows an earlier run stored
C27_Witness ==
    /\ pc = "returned"
    /\ calculate_composite_history(indicator_configs, observations, WINDOW) = <<>>
    /\ market_series # {}
    /\ run.records_inserted = 0
    /\ regime_returns # {} /\ regime_returns = run.previous
    /\ reader.request = "regime-returns"
    /\ reader.regime_data # {}

-----------------------------------------------------------------------------
(* C30: when calculate_composite_latest returns an error result,              *)
(* get_current_market does not pass the error on: its response has             *)
(* current_regime "normal" and composite_score null, and the regime context    *)
(* and the regime average of every symbol are those of regime "normal", as in  *)
(* a response for a computed regime "normal".  With a computed composite the   *)
(* response has its regime and score.                                          *)

\* The regime average of a symbol in regime r as the response gives it
RegimeAverageOf(symbol, r) ==
    LET rows == {rr \in regime_returns : rr.symbol = symbol /\ rr.regime = r}
    IN  IF rows = {} THEN <<>>
        ELSE <<((CHOOSE rr \in rows : TRUE).avg_monthly_return * 10000) \div Scale>>

\* The response is one for regime r
ResponseFor(r) ==
    /\ reader.regime = r
    /\ reader.regime_data = JoinedRows(regime_returns, r)
    /\ reader.regime_context.regime = r
    /\ ("message" \in DOMAIN reader.regime_context) <=> (JoinedRows(regime_returns, r) = {})
    /\ {e.symbol : e \in reader.symbols} = {p.symbol : p \in market_prices}
    /\ \A e \in reader.symbols : e.regime_avg_return_pct = RegimeAverageOf(e.symbol, r)

C30_ErrorShownAsNormal ==
    reader.request = "current" =>
        LET latest == calculate_composite_latest(indicator_configs, observations, WINDOW)
        IN  IF "error" \in DOMAIN latest
            THEN /\ "error" \notin DOMAIN reader
                 /\ reader.composite_score = <<>>
                 /\ ResponseFor("normal")
            ELSE /\ reader.composite_score = <<latest.composite.score>>
                 /\ ResponseFor(latest.composite.regime)

\* The latest composite is an error for lack of aligned months while an
\* earlier run has stored rows of SPY, none of them of regime normal: the
\* response names the regime normal without a score, its context is that of
\* normal (no data) and SPY's regime average is null
C30_Witness ==
    /\ reader.request = "current"
    /\ "error" \in DOMAIN calculate_composite_latest(indicator_configs, observations, WINDOW)
    /\ reader.regime = "normal" /\ reader.composite_score = <<>>
    /\ RowsOf("SPY") # {}
    /\ reader.regime_data = {}
    /\ "message" \in DOMAIN reader.regime_context
    /\ \E e \in reader.symbols : e.symbol = "SPY" /\ e.regime_avg_return_pct = <<>>

-----------------------------------------------------------------------------
(* SpecRefresh: one run of scripts/daily_refresh.py on the seeded, empty store. *)
(* main calls the refresh functions one after another; each ingest or          *)
(* recomputation is called inside its own `try: ... except Exception`, which   *)
(* logs the failure and lets main go on.  pc is the step main is about to run, *)
(* call.log the lines logged for the steps so far.                             *)

\* The steps in the order of lines 35-73, 80-85 and 92-97
RefreshSteps == <<"gscpi", "cass", "retail", "fred", "baltic", "market", "regime">>

\* How the call of a step's main can end: it returns, or it raises.  The
\* fetches and the database can raise an Exception in every main;
\* ingest_gscpi.main also raises SystemExit(1) when no sheet of the workbook
\* yields a series (ingest_gscpi.py line 128)
Outcomes(step) ==
    IF step = "gscpi" THEN {"ok", "Exception", "SystemExit"} ELSE {"ok", "Exception"}



\* `except Exception as e` (lines 40, 48, 56, 64, 72, 84, 96): SystemExit
\* derives from BaseException, not from Exception, and passes through
Caught(raised) == raised = "Exception"

\* The line a step logs: "updated" after the call returned, "failed" in the
\* handler
LogLine(step, raised) ==
    [step |-> step, line |-> IF raised = "ok" THEN "updated" ELSE "failed"]

\* Where main is after a step: at the next step, or out of main with the
\* exception no handler caught (nothing is logged then)
AfterStep(step, raised, next) ==
    IF raised = "ok" \/ Caught(raised)
    THEN /\ pc' = next
         /\ call' = [call EXCEPT !.log = Append(@, LogLine(step, raised))]
    ELSE /\ pc' = "exited"
         /\ call' = [call EXCEPT !.raised = raised]

\* Series of the other ingests; no seeded config of the model includes them
FredIndicators == {"ism_supplier", "mfg_new_orders", "wholesale_ratio"}

\* What FRED and Quandl return for those series: the first month
FirstMonth(sid) == <<<<isoformat(DateOf(0, 15)), FeedValue(sid, DateOf(0, 15))>>>>

\* ingest_cass.main (ingest_cass.py lines 13-37): the fetched rows whose date
\* is not stored for the series
CassToAdd(obsTable, rows) ==
    {[series_id |-> "cass", date |-> fromisoformat(rows[i][1]), value |-> rows[i][2]] :
        i \in {j \in 1..Len(rows) :
                  ~\E o \in obsTable : o.series_id = "cass"
                                       /\ o.date = fromisoformat(rows[j][1])}}

\* compute_regime_returns as a whole (regime_analyzer.py lines 52-138): the
\* table it leaves
compute_regime_returns(cfgTable, obsTable, seriesTable, priceTable, table) ==
    LET composite_history == calculate_composite_history(cfgTable, obsTable, WINDOW)
    IN  IF NothingToCompute(composite_history, seriesTable)
        THEN table
        ELSE UNION {SymbolRows(priceTable, MonthRegime(composite_history), ms.symbol) :
                       ms \in seriesTable}

NoRefresh == [op |-> "daily_refresh", log |-> <<>>, raised |-> "none"]

InitRefresh ==
    /\ indicator_configs = SeedIndicatorConfigs
    /\ observations = {}
    /\ market_series \in {{}, SeedMarketSeries}
    /\ market_prices = {}
    /\ regime_returns = {}
    /\ result = NoResult
    /\ pc = "gscpi"
    /\ run = NoRun
    /\ reader = NoReader
    /\ call = NoRefresh

\* lines 36-41: ingest_gscpi.main
RefreshGscpi ==
    /\ pc = "gscpi"
    /\ \E raised \in Outcomes("gscpi") :
           /\ IF raised = "ok"
              THEN \E rows \in ObservationBatches("gscpi") :
                       observations' = observations
                           \cup Range(ObservationsToAdd(observations, "gscpi", rows))
              ELSE UNCHANGED observations
           /\ AfterStep("gscpi", raised, "cass")
    /\ UNCHANGED <<indicator_configs, market_series, market_prices, regime_returns,
                   result, run, reader>>

\* lines 44-49: ingest_cass.main
RefreshCass ==
    /\ pc = "cass"
    /\ \E raised \in Outcomes("cass") :
           /\ IF raised = "ok"
              THEN \E rows \in ObservationBatches("cass") :
                       observations' = observations \cup CassToAdd(observations, rows)
              ELSE UNCHANGED observations
           /\ AfterStep("cass", raised, "retail")
    /\ UNCHANGED <<indicator_configs, market_series, market_prices, regime_returns,
                   result, run, reader>>

\* lines 52-57: ingest_retailirsa.main
RefreshRetail ==
    /\ pc = "retail"
    /\ \E raised \in Outcomes("retail") :
           /\ IF raised = "ok"
              THEN observations' = observations
                       \cup Range(ObservationsToAdd(observations, "retailirsa",
                                                    FirstMonth("retailirsa")))
              ELSE UNCHANGED observations
           /\ AfterStep("retail", raised, "fred")
    /\ UNCHANGED <<indicator_configs, market_series, market_prices, regime_returns,
                   result, run, reader>>

\* lines 60-65: ingest_fred_indicators.main; ingest_indicator catches the
\* failure of one indicator (ingest_fred_indicators.py lines 40-49), so a
\* main that returns has stored the indicators in `fetched`
RefreshFred ==
    /\ pc = "fred"
    /\ \E raised \in Outcomes("fred") :
           /\ IF raised = "ok"
              THEN \E fetched \in SUBSET FredIndicators :
                       observations' = observations \cup
                           UNION {Range(ObservationsToAdd(observations, sid, FirstMonth(sid))) :
                                     sid \in fetched}
              ELSE UNCHANGED observations
           /\ AfterStep("fred", raised, "baltic")
    /\ UNCHANGED <<indicator_configs, market_series, market_prices, regime_returns,
                   result, run, reader>>

\* lines 68-73: ingest_baltic_dry.main, which returns without storing when
\* its fetch fails (ingest_baltic_dry.py lines 81-87)
RefreshBaltic ==
    /\ pc = "baltic"
    /\ \E raised \in Outcomes("baltic") :
           /\ IF raised = "ok"
              THEN \E fetched \in BOOLEAN :
                       observations' = observations \cup
                           (IF fetched
                            THEN Range(ObservationsToAdd(observations, "baltic_dry",
                                                         FirstMonth("baltic_dry")))
                            ELSE {})
              ELSE UNCHANGED observations
           /\ AfterStep("baltic", raised, "market")
    /\ UNCHANGED <<indicator_configs, market_series, market_prices, regime_returns,
                   result, run, reader>>

\* lines 80-85: ingest_market_data.main (ingest_market_data.py lines 122-140):
\* ensure_market_series, then every symbol; ingest_symbol catches the failure
\* of one symbol, and a symbol without data stores nothing (lines 109-119).
\* A main that raises has failed before its first commit
RefreshMarket ==
    /\ pc = "market"
    /\ \E raised \in Outcomes("market") :
           /\ IF raised = "ok"
              THEN /\ market_series' = market_series \cup
                           {ms \in SeedMarketSeries :
                               ms.symbol \notin {x.symbol : x \in market_series}}
                   /\ \E fetched \in [Symbols -> UNION {PriceBatches(s) \cup {<<>>} : s \in Symbols}] :
                          /\ \A s \in Symbols : fetched[s] \in PriceBatches(s) \cup {<<>>}
                          /\ market_prices' = market_prices \cup
                                 UNION {Range(PricesToAdd(market_prices, s, fetched[s])) :
                                           s \in Symbols}
              ELSE UNCHANGED <<market_series, market_prices>>
           /\ AfterStep("market", raised, "regime")
    /\ UNCHANGED <<indicator_configs, observations, regime_returns, result, run, reader>>

\* lines 92-97: regime_analyzer.main (regime_analyzer.py lines 209-217); a
\* failure leaves the table as it was or, after the commit of line 82, empty
RefreshRegime ==
    /\ pc = "regime"
    /\ \E raised \in Outcomes("regime") :
           /\ IF raised = "ok"
              THEN regime_returns' = compute_regime_returns(indicator_configs, observations,
                                         market_series, market_prices, regime_returns)
              ELSE regime_returns' \in {regime_returns, ClearedRegimeReturns(regime_returns)}
           /\ AfterStep("regime", raised, "completion")
    /\ UNCHANGED <<indicator_configs, observations, market_series, market_prices,
                   result, run, reader>>

\* main, lines 113-116: the completion log
LogCompletion ==
    /\ pc = "completion"
    /\ pc' = "done"
    /\ call' = [call EXCEPT !.log = Append(@, [step |-> "main", line |-> "completed"])]
    /\ UNCHANGED <<dbVars, result, run, reader>>

NextRefresh ==
    \/ RefreshGscpi
    \/ RefreshCass
    \/ RefreshRetail
    \/ RefreshFred
    \/ RefreshBaltic
    \/ RefreshMarket
    \/ RefreshRegime
    \/ LogCompletion

SpecRefresh == InitRefresh /\ [][NextRefresh]_vars

-----------------------------------------------------------------------------
(* C28: the order of the steps of one refresh run and their isolation. *)

\* The steps with a logged line, in the order of their lines
StepsLogged == [i \in 1..Len(call.log) |-> call.log[i].step]

IsPrefix(s, t) == Len(s) <= Len(t) /\ \A i \in 1..Len(s) : s[i] = t[i]

RefreshEnded == pc \in {"done", "exited"}

\* C28: in one run of daily_refresh.main the steps occur in the order GSCPI,
\* Cass, retail inventories, FRED indicators, Baltic Dry, market data, regime
\* statistics, and whatever a step does, main ends only after the regime
\* statistics step has run and the completion line is logged
C28_EveryStepRunsDespiteFailures ==
    /\ IsPrefix(StepsLogged, RefreshSteps \o <<"main">>)
    /\ RefreshEnded =>
           /\ pc = "done"
           /\ StepsLogged = RefreshSteps \o <<"main">>
           /\ call.log[Len(call.log)].line = "completed"

\* What the run keeps: the order, and completion unless a step raised
\* something that is no Exception
RefreshCompletesUnlessExit ==
    /\ IsPrefix(StepsLogged, RefreshSteps \o <<"main">>)
    /\ pc = "done" => /\ StepsLogged = RefreshSteps \o <<"main">>
                      /\ call.raised = "none"
    /\ pc = "exited" => call.raised = "SystemExit" /\ call.log = <<>>

\* ingest_gscpi.main has raised SystemExit: main is over, no step has logged
\* a line, and nothing was ingested or recomputed
C28_Witness ==
    /\ pc = "exited"
    /\ call.raised = "SystemExit"
    /\ call.log = <<>>
    /\ observations = {} /\ market_prices = {} /\ regime_returns = {}

=============================================================================
